---- MODULE Spec2Model ----
(***************************************************************************)
(* Global Platform T=1' data-link protocol engine (libs/t1prime).          *)
(* The host side is translated from t1prime.c; the secure element (card)   *)
(* and the byte transport are the environment: every block receive draws   *)
(* one frame from CardFramesAt.                                            *)
(***************************************************************************)
EXTENDS Integers, Sequences, FiniteSets, TLC

(***************************************************************************)
(* Bounds of the model                                                     *)
(***************************************************************************)
MaxReqLen == 3        \* longest request handed to t1prime_transceive
MaxIBlocksRecv == 2   \* response I-blocks taken from the card per call
MaxInfoLen == 2       \* longest information field handed to the block codec

(***************************************************************************)
(* Program constants                                                       *)
(***************************************************************************)
SUCCESS == 0
ERROR_INDICATOR == (-2147483647) - 1   \* 0x80000000 as a 32-bit int
OUT_OF_MEMORY == 254
ILLEGAL_ARGUMENT == 253
TOO_LITTLE_DATA == 252
LIBT1PRIME == 33
PROTOCOL_ACTIVATE == 129
PROTOCOL_TRANSCEIVE == 130
PROTOCOL_TRANSMIT == 131
PROTOCOL_RECEIVE == 132
PROTOCOL_SETPROPERTY == 134
TRANSCEIVE_ABORTED == 96
INVALID_BLOCK == 97
T1PRIME_BLOCK_DECODE == 96
INVALID_CRC == 2
INFORMATIONSIZE_MISMATCH == 1
T1PRIME_VALIDATE_CRC == 80
BLOCK_PROLOGUE_LENGTH == 4
BLOCK_EPILOGUE_LENGTH == 2
T1PRIME_CIP_DECODE == 48
T1PRIME_CIP_VALIDATE == 49
T1PRIME_DLLP_DECODE == 50
T1PRIME_PLP_DECODE == 51
T1PRIME_IFS_DECODE == 52
INVALID_LENGTH == 1
INVALID_PLID == 2
PLID_SPI == 1
PLID_I2C == 2
NAD_HD_TO_SE == 33
NAD_SE_TO_HD == 18
T1PRIME_BLOCK_TRANSCEIVE_RETRIES == 2
T1PRIME_MAX_IFS == 4089
T1PRIME_DEFAULT_IFSC == 8
T1PRIME_DEFAULT_BWT == 300
T1PRIME_DEFAULT_I2C_MPOT == 10

IFX_ERROR(module, function, reason) ==
    ERROR_INDICATOR + ((module % 256) * 65536) + ((function % 256) * 256) + (reason % 256)

ifx_is_error(status_code) == status_code < 0   \* bit 31 of an int

ifx_error_get_function(error_code) == (error_code \div 256) % 256

ifx_error_get_reason(error_code) == error_code % 256

(***************************************************************************)
(* Protocol control byte (PCB) macros                                      *)
(***************************************************************************)
T1PRIME_PCB(type) == type % 256

T1PRIME_PCB_I(ns, m) ==
    T1PRIME_PCB((IF ns # 0 THEN 64 ELSE 0) + (IF m THEN 32 ELSE 0))

T1PRIME_PCB_IS_I(pcb) == (T1PRIME_PCB(pcb) \div 128) % 2 = 0

T1PRIME_PCB_I_GET_NS(pcb) == (T1PRIME_PCB(pcb) \div 64) % 2

T1PRIME_PCB_I_HAS_MORE(pcb) == (T1PRIME_PCB(pcb) \div 32) % 2 = 1

T1PRIME_PCB_R(nr, type) ==
    T1PRIME_PCB(128 + (IF nr # 0 THEN 16 ELSE 0) + (type % 16))

T1PRIME_PCB_IS_R(pcb) == T1PRIME_PCB(pcb) \div 64 = 2

T1PRIME_PCB_R_GET_NR(pcb) == (T1PRIME_PCB(pcb) \div 16) % 2

T1PRIME_PCB_R_ACK(nr) == T1PRIME_PCB_R(nr, 0)

T1PRIME_PCB_R_CRC(nr) == T1PRIME_PCB_R(nr, 1)

T1PRIME_PCB_S(type, is_response) ==
    T1PRIME_PCB(192 + (IF is_response THEN 32 ELSE 0) + (type % 16))

T1PRIME_PCB_IS_S(pcb) == T1PRIME_PCB(pcb) \div 64 = 3

T1PRIME_PCB_S_IS_REQUEST(pcb) == (T1PRIME_PCB(pcb) \div 32) % 2 = 0

T1PRIME_PCB_S_GET_TYPE(pcb) == T1PRIME_PCB(pcb) % 32

T1PRIME_PCB_S_RESYNCH_REQ == T1PRIME_PCB_S(0, FALSE)
T1PRIME_PCB_S_RESYNCH_RESP == T1PRIME_PCB_S(0, TRUE)
T1PRIME_PCB_S_IFS_REQ == T1PRIME_PCB_S(1, FALSE)
T1PRIME_PCB_S_IFS_RESP == T1PRIME_PCB_S(1, TRUE)
T1PRIME_PCB_S_ABORT_REQ == T1PRIME_PCB_S(2, FALSE)
T1PRIME_PCB_S_ABORT_RESP == T1PRIME_PCB_S(2, TRUE)
T1PRIME_PCB_S_WTX_REQ == T1PRIME_PCB_S(3, FALSE)
T1PRIME_PCB_S_WTX_RESP == T1PRIME_PCB_S(3, TRUE)
T1PRIME_PCB_S_CIP_REQ == T1PRIME_PCB_S(4, FALSE)
T1PRIME_PCB_S_CIP_RESP == T1PRIME_PCB_S(4, TRUE)
T1PRIME_PCB_S_SWR_REQ == T1PRIME_PCB_S(15, FALSE)
T1PRIME_PCB_S_SWR_RESP == T1PRIME_PCB_S(15, TRUE)

(***************************************************************************)
(* Blocks.  A Block owns nad, pcb and its information bytes; the C field   *)
(* information_size is Len(information).                                   *)
(***************************************************************************)
Block(nad, pcb, information) ==
    [nad |-> nad, pcb |-> pcb, information |-> information]

NoBlock == Block(0, 0, <<>>)

Min(a, b) == IF a < b THEN a ELSE b

Xor1(c) == (c + 1) % 2

(***************************************************************************)
(* State                                                                   *)
(***************************************************************************)
VARIABLES
    protocol_state,      \* T1PrimeProtocolState of the protocol object
    op,                  \* public operation in progress
    pc,                  \* position of the host inside the operation
    ret,                 \* caller of the running t1prime_block_transceive
    frame,               \* locals of t1prime_transceive and of t1prime_set_ifsd
    transmission_block,  \* Block transmission_block of t1prime_transceive
    response,            \* *response / *response_len of the caller
    status,              \* int status
    bt,                  \* locals of t1prime_block_transceive
    hist                 \* history of the running operation (observer)

vars == <<protocol_state, op, pc, ret, frame, transmission_block,
          response, status, bt, hist>>

NullResponse == [null |-> TRUE, bytes |-> <<>>]

NoFrame == [data |-> <<>>, offset |-> 0, remaining |-> 0,
            last_information_size |-> 0, aborted |-> FALSE, ifsd |-> 0]

NoBt == [block |-> NoBlock, to_send |-> NoBlock, try |-> 0]

NoHist == [s0 |-> 0, r0 |-> 0, ifsc0 |-> 0, bwt0 |-> 0, reqLen |-> 0,
           sentI |-> <<>>, lastI |-> -1, ackedParity |-> 0, outstanding |-> FALSE,
           nCardI |-> 0, cardBytes |-> <<>>,
           txCount |-> 0, lastTx |-> NoBlock, lastRx |-> "none", exhausted |-> FALSE,
           onlyBadCrc |-> TRUE,
           sawIfsReq |-> FALSE, sawRetransmitReq |-> FALSE,
           abortAt |-> "none", txAfterAbort |-> <<>>,
           btStatus |-> 0, honest |-> TRUE,
           firstExchange |-> FALSE, abortFirstChained |-> FALSE,
           ifsAnswered |-> -1, ifsShrink |-> -1,
           wtxM |-> -1, wtxS |-> -1, wtxR |-> -1, wtxThenI |-> FALSE,
           cipInfo |-> <<>>, cipParsed |-> FALSE, sawResynchTx |-> FALSE,
           matched |-> FALSE,
           ifsd |-> -1, rxBlock |-> NoBlock,
           rxKind |-> "none", lastIInfo |-> <<>>, shrunk |-> FALSE,
           bus |-> "none", alternates |-> TRUE, wrongNr |-> FALSE,
           rxMore |-> FALSE]

(***************************************************************************)
(* The environment: what one t1prime_block_receive can read from the       *)
(* transport.  nad = 0 stands for a NAD poll that never saw a valid start  *)
(* byte within BWT; prologue_len / epilogue_len / Len(information) are the *)
(* byte counts the transport actually delivered; crc_ok tells whether the  *)
(* epilogue matches the CRC of the frame.                                  *)
(***************************************************************************)
Frame(pcb, information) ==
    [nad |-> NAD_SE_TO_HD, pcb |-> pcb, prologue_len |-> 3,
     len |-> Len(information), information |-> information,
     epilogue_len |-> 2, crc_ok |-> TRUE]

TimeoutFrame == [Frame(0, <<>>) EXCEPT !.nad = 0]

BadCrcFrame == [Frame(0, <<>>) EXCEPT !.crc_ok = FALSE]

ShortFrames ==
    { [Frame(0, <<>>) EXCEPT !.prologue_len = 2],
      [Frame(0, <<>>) EXCEPT !.len = 2],
      [Frame(0, <<>>) EXCEPT !.epilogue_len = 1] }

CardInfos == { <<>> } \cup { <<240 + k>> : k \in 1..(MaxIBlocksRecv + 1) }

CardIFrames ==
    { Frame(T1PRIME_PCB_I(ns, m), i) : ns \in {0, 1}, m \in BOOLEAN, i \in CardInfos }

CardRFrames ==
    { Frame(T1PRIME_PCB_R(nr, t), <<>>) : nr \in {0, 1}, t \in {0, 3} }

CardSFrames ==
    { Frame(T1PRIME_PCB_S_WTX_REQ, <<2>>),
      Frame(T1PRIME_PCB_S_WTX_REQ, <<>>),
      Frame(T1PRIME_PCB_S_IFS_REQ, <<1>>),
      Frame(T1PRIME_PCB_S_IFS_REQ, <<255, 255>>),
      Frame(T1PRIME_PCB_S_IFS_REQ, <<0, 1, 0>>),
      Frame(T1PRIME_PCB_S_ABORT_REQ, <<>>),
      Frame(T1PRIME_PCB_S_RESYNCH_RESP, <<>>),
      Frame(T1PRIME_PCB_S_SWR_RESP, <<>>),
      Frame(T1PRIME_PCB_S(5, FALSE), <<>>) }

\* A CIP as the card encodes it: version, IIN, PLID, PLP, DLLP, historical bytes
MkCip(iin, plid, plp, dllp, hb) ==
    <<1, Len(iin)>> \o iin \o <<plid, Len(plp)>> \o plp
        \o <<Len(dllp)>> \o dllp \o <<Len(hb)>> \o hb

I2cPlp(mpot) == <<0, 0, 1, 144, 0, mpot, 0, 0>>

Dllp(bwt, ifsc) == <<bwt \div 256, bwt % 256, ifsc \div 256, ifsc % 256>>

CardCips ==
    { MkCip(<<0, 0, 0>>, PLID_I2C, I2cPlp(10), Dllp(128, 2), <<7>>),
      MkCip(<<0, 0, 0>>, PLID_I2C, I2cPlp(10), Dllp(0, 65535), <<>>),
      MkCip(<<0, 0, 0>>, PLID_SPI, <<0, 0, 0, 0, 0, 0, 0, 0, 0, 0, 0, 0>>, Dllp(128, 2), <<>>),
      MkCip(<<0, 0>>, PLID_I2C, I2cPlp(10), Dllp(128, 2), <<>>),
      MkCip(<<0, 0, 0>>, 3, I2cPlp(10), Dllp(128, 2), <<>>),
      MkCip(<<0, 0, 0>>, PLID_I2C, <<0, 0, 1>>, Dllp(128, 2), <<>>),
      MkCip(<<0, 0, 0>>, PLID_I2C, I2cPlp(10), <<0, 128>>, <<>>),
      MkCip(<<0, 0, 0>>, PLID_I2C, I2cPlp(10), Dllp(128, 2), <<>>) \o <<9>>,
      <<1, 3, 0>> }

CardCipFrames ==
    { Frame(T1PRIME_PCB_S_CIP_RESP, c) : c \in CardCips }
        \cup { Frame(T1PRIME_PCB_S_CIP_RESP, <<>>) }

\* the answers of a card to S(IFS request)
CardIfsFrames ==
    { Frame(T1PRIME_PCB_S_IFS_RESP, i) :
        i \in { <<>>, <<1>>, <<2>>, <<255>>, <<0, 1>>, <<0, 255>>, <<1, 2>>,
                <<15, 249>>, <<15, 250>>, <<0, 0, 0>>, <<0, 1, 2>> } }

CardFrames ==
    {TimeoutFrame, BadCrcFrame} \cup ShortFrames \cup CardIFrames
        \cup CardRFrames \cup CardSFrames \cup CardCipFrames \cup CardIfsFrames

\* The frames offered to one receive.  A response I-block carries the next
\* byte of the card's response or nothing; the content of a CIP only matters
\* to the exchange of S(CIP request).
CardFramesAt(caller, nCardI) ==
    { f \in CardFrames :
        /\ f \in CardIFrames => f.information \in {<<>>, <<241 + nCardI>>}
        /\ f \in CardCipFrames => caller = "cip" \/ f.information = <<>>
        /\ f \in CardIfsFrames => caller = "ifsd" }

\* variant: a CRC mismatch is reported as an invalid block
t1prime_block_receive_InvalidBlock(f) ==
    IF f.nad = 0 \/ f.nad = 255 \/ f.prologue_len # 3
          \/ (f.len > 0 /\ Len(f.information) # f.len) \/ f.epilogue_len # 2
    THEN [status |-> IFX_ERROR(LIBT1PRIME, PROTOCOL_RECEIVE, TOO_LITTLE_DATA),
          block |-> NoBlock]
    ELSE IF ~f.crc_ok
    THEN [status |-> IFX_ERROR(LIBT1PRIME, PROTOCOL_TRANSCEIVE, INVALID_BLOCK),
          block |-> NoBlock]
    ELSE [status |-> SUCCESS, block |-> Block(f.nad, f.pcb, f.information)]

(***************************************************************************)
(* t1prime_block_receive: one block read from the transport                *)
(***************************************************************************)
t1prime_block_receive(f) ==
    IF f.nad = 0 \/ f.nad = 255
    THEN [status |-> IFX_ERROR(LIBT1PRIME, PROTOCOL_RECEIVE, TOO_LITTLE_DATA),
          block |-> NoBlock]
    ELSE IF f.prologue_len # 3
    THEN [status |-> IFX_ERROR(LIBT1PRIME, PROTOCOL_RECEIVE, TOO_LITTLE_DATA),
          block |-> NoBlock]
    ELSE IF f.len > 0 /\ Len(f.information) # f.len
    THEN [status |-> IFX_ERROR(LIBT1PRIME, PROTOCOL_RECEIVE, TOO_LITTLE_DATA),
          block |-> NoBlock]
    ELSE IF f.epilogue_len # 2
    THEN [status |-> IFX_ERROR(LIBT1PRIME, PROTOCOL_RECEIVE, TOO_LITTLE_DATA),
          block |-> NoBlock]
    ELSE IF ~f.crc_ok
    THEN [status |-> IFX_ERROR(LIBT1PRIME, T1PRIME_BLOCK_DECODE, INVALID_CRC),
          block |-> NoBlock]
    ELSE [status |-> SUCCESS, block |-> Block(f.nad, f.pcb, f.information)]

(***************************************************************************)
(* t1prime_block_transceive, the part after a receive: decides whether the *)
(* exchange returns, and with which status.                                *)
(***************************************************************************)
IsSRequest(pcb) == T1PRIME_PCB_IS_S(pcb) /\ T1PRIME_PCB_S_IS_REQUEST(pcb)

t1prime_block_transceive_validate(block, rx, send_counter) ==
    IF rx.status # SUCCESS
    THEN [returns |-> FALSE, status |-> rx.status]
    ELSE IF IsSRequest(block.pcb)
    THEN IF T1PRIME_PCB_IS_S(rx.block.pcb) /\ ~T1PRIME_PCB_S_IS_REQUEST(rx.block.pcb)
         THEN IF T1PRIME_PCB_S_GET_TYPE(block.pcb) = T1PRIME_PCB_S_GET_TYPE(rx.block.pcb)
              THEN [returns |-> TRUE, status |-> rx.status]
              ELSE [returns |-> FALSE,
                    status |-> IFX_ERROR(LIBT1PRIME, PROTOCOL_TRANSCEIVE, INVALID_BLOCK)]
         ELSE IF T1PRIME_PCB_IS_R(rx.block.pcb)
         THEN IF T1PRIME_PCB_R_GET_NR(rx.block.pcb) # send_counter
              THEN [returns |-> TRUE,
                    status |-> IFX_ERROR(LIBT1PRIME, PROTOCOL_TRANSCEIVE, INVALID_BLOCK)]
              ELSE [returns |-> FALSE,
                    status |-> IFX_ERROR(LIBT1PRIME, PROTOCOL_TRANSCEIVE, INVALID_BLOCK)]
         ELSE IF T1PRIME_PCB_IS_I(rx.block.pcb)
         THEN [returns |-> TRUE,
               status |-> IFX_ERROR(LIBT1PRIME, PROTOCOL_TRANSCEIVE, INVALID_BLOCK)]
         ELSE [returns |-> FALSE,
               status |-> IFX_ERROR(LIBT1PRIME, PROTOCOL_TRANSCEIVE, INVALID_BLOCK)]
    ELSE [returns |-> TRUE, status |-> rx.status]

\* variant: every retry repeats the block of the attempt before
RetryBlockRepeated(block, to_send, receive_counter) == to_send

\* variant: every retry asks for a retransmission with R(crc_error)
RetryBlockAlwaysR(block, to_send, receive_counter) ==
    Block(NAD_HD_TO_SE, T1PRIME_PCB_R_CRC(receive_counter), <<>>)

\* the block sent on the next attempt of the exchange
RetryBlock(block, to_send, receive_counter) ==
    IF ~T1PRIME_PCB_IS_S(block.pcb) \/ ~T1PRIME_PCB_S_IS_REQUEST(block.pcb)
    THEN Block(NAD_HD_TO_SE, T1PRIME_PCB_R_CRC(receive_counter), <<>>)
    ELSE to_send

\* variants: one retry more, one retry less
RetryAllowedOnceMore(try) == try <= T1PRIME_BLOCK_TRANSCEIVE_RETRIES + 1

RetryAllowedOnceLess(try) == try <= T1PRIME_BLOCK_TRANSCEIVE_RETRIES - 1

\* loop condition of the do-while, evaluated on the incremented try
RetryAllowed(try) == try <= T1PRIME_BLOCK_TRANSCEIVE_RETRIES

(***************************************************************************)
(* t1prime_ifs_decode                                                      *)
(***************************************************************************)
t1prime_ifs_decode(data) ==
    IF Len(data) < 1 \/ Len(data) > 2
    THEN [status |-> IFX_ERROR(LIBT1PRIME, T1PRIME_IFS_DECODE, ILLEGAL_ARGUMENT), ifs |-> 0]
    ELSE LET v == IF Len(data) = 1 THEN data[1] ELSE data[1] * 256 + data[2]
         IN  IF v > T1PRIME_MAX_IFS
             THEN [status |-> IFX_ERROR(LIBT1PRIME, T1PRIME_IFS_DECODE, ILLEGAL_ARGUMENT),
                   ifs |-> v]
             ELSE [status |-> SUCCESS, ifs |-> v]

(***************************************************************************)
(* crc16_ccitt_x25: CCITT-X.25, polynomial 0x1021 reflected (0x8408), init *)
(* 0xFFFF, XOR-out 0xFFFF                                                  *)
(***************************************************************************)
RECURSIVE BitXor(_, _)
BitXor(a, b) ==
    IF a = 0 THEN b
    ELSE IF b = 0 THEN a
    ELSE ((a + b) % 2) + 2 * BitXor(a \div 2, b \div 2)

RECURSIVE Crc16Shift(_, _)
Crc16Shift(crc, n) ==
    IF n = 0 THEN crc
    ELSE IF crc % 2 = 1 THEN Crc16Shift(BitXor(crc \div 2, 33800), n - 1)
    ELSE Crc16Shift(crc \div 2, n - 1)

RECURSIVE Crc16Update(_, _)
Crc16Update(crc, data) ==
    IF data = <<>> THEN crc
    ELSE Crc16Update(Crc16Shift(BitXor(crc, Head(data)), 8), Tail(data))

crc16_ccitt_x25(data) == BitXor(Crc16Update(65535, data), 65535)

(***************************************************************************)
(* t1prime_validate_crc, t1prime_block_encode, t1prime_block_decode        *)
(***************************************************************************)
\* nad, pcb and the two bytes of information_size
BlockPrologue(block) ==
    <<block.nad, block.pcb,
      (Len(block.information) \div 256) % 256, Len(block.information) % 256>>

t1prime_validate_crc(block, expected) ==
    IF crc16_ccitt_x25(BlockPrologue(block) \o block.information) # expected
    THEN IFX_ERROR(LIBT1PRIME, T1PRIME_VALIDATE_CRC, INVALID_CRC)
    ELSE SUCCESS

\* variant: the low byte of the CRC is written first
t1prime_block_encode_CrcLowFirst(block) ==
    LET body == BlockPrologue(block) \o block.information
        crc == crc16_ccitt_x25(body)
    IN  body \o <<crc % 256, crc \div 256>>

t1prime_block_encode(block) ==
    LET body == BlockPrologue(block) \o block.information
        crc == crc16_ccitt_x25(body)
    IN  body \o <<crc \div 256, crc % 256>>

t1prime_block_decode(data) ==
    IF Len(data) < BLOCK_PROLOGUE_LENGTH + BLOCK_EPILOGUE_LENGTH
    THEN [status |-> IFX_ERROR(LIBT1PRIME, T1PRIME_BLOCK_DECODE, TOO_LITTLE_DATA),
          block |-> NoBlock]
    ELSE LET information_size == data[3] * 256 + data[4]
             block == Block(data[1], data[2],
                            SubSeq(data, BLOCK_PROLOGUE_LENGTH + 1,
                                   BLOCK_PROLOGUE_LENGTH + information_size))
             crc == data[Len(data) - 1] * 256 + data[Len(data)]
         IN  IF Len(data) # BLOCK_PROLOGUE_LENGTH + information_size
                                + BLOCK_EPILOGUE_LENGTH
             THEN [status |-> IFX_ERROR(LIBT1PRIME, T1PRIME_BLOCK_DECODE,
                                        INFORMATIONSIZE_MISMATCH),
                   block |-> Block(data[1], data[2], <<>>)]
             ELSE IF t1prime_validate_crc(block, crc) # SUCCESS
             THEN [status |-> IFX_ERROR(LIBT1PRIME, T1PRIME_BLOCK_DECODE, INVALID_CRC),
                   block |-> Block(data[1], data[2], <<>>)]
             ELSE [status |-> SUCCESS, block |-> block]

(***************************************************************************)
(* t1prime_ifs_encode                                                      *)
(***************************************************************************)
\* variant: values above 0xFE take three bytes, 0x00 MSB LSB
t1prime_ifs_encode_ThreeBytes(ifs) ==
    IF ifs = 0 \/ ifs > T1PRIME_MAX_IFS
    THEN [status |-> IFX_ERROR(LIBT1PRIME, PROTOCOL_SETPROPERTY, ILLEGAL_ARGUMENT),
          buffer |-> <<>>]
    ELSE IF ifs <= 254
    THEN [status |-> SUCCESS, buffer |-> <<ifs % 256>>]
    ELSE [status |-> SUCCESS, buffer |-> <<0, (ifs \div 256) % 16, ifs % 256>>]

\* variant: every value is accepted
t1prime_ifs_encode_Unchecked(ifs) ==
    IF ifs <= 254
    THEN [status |-> SUCCESS, buffer |-> <<ifs % 256>>]
    ELSE [status |-> SUCCESS, buffer |-> <<(ifs \div 256) % 16, ifs % 256>>]

t1prime_ifs_encode(ifs) ==
    IF ifs = 0 \/ ifs > T1PRIME_MAX_IFS
    THEN [status |-> IFX_ERROR(LIBT1PRIME, PROTOCOL_SETPROPERTY, ILLEGAL_ARGUMENT),
          buffer |-> <<>>]
    ELSE IF ifs <= 254
    THEN [status |-> SUCCESS, buffer |-> <<ifs % 256>>]
    ELSE [status |-> SUCCESS, buffer |-> <<(ifs \div 256) % 16, ifs % 256>>]

(***************************************************************************)
(* Observer helpers                                                        *)
(***************************************************************************)
FrameKind(f) ==
    IF f.nad = 0 \/ f.nad = 255 THEN "nothing"
    ELSE IF f.prologue_len # 3 \/ (f.len > 0 /\ Len(f.information) # f.len)
            \/ f.epilogue_len # 2 THEN "short"
    ELSE IF ~f.crc_ok THEN "badcrc"
    ELSE "block"

\* what a block read during transceive is to the host, by its pcb and the
\* counters at the time it is read
RxKind(pcb, ps) ==
    IF T1PRIME_PCB_IS_I(pcb)
    THEN IF T1PRIME_PCB_I_GET_NS(pcb) = ps.receive_counter
         THEN "I_expected" ELSE "I_other"
    ELSE IF T1PRIME_PCB_IS_R(pcb)
    THEN IF T1PRIME_PCB_R_GET_NR(pcb) = ps.send_counter
         THEN "R_same" ELSE "R_next"
    ELSE IF pcb = T1PRIME_PCB_S_WTX_REQ THEN "S_wtx"
    ELSE IF pcb = T1PRIME_PCB_S_IFS_REQ THEN "S_ifs"
    ELSE IF pcb = T1PRIME_PCB_S_ABORT_REQ THEN "S_abort"
    ELSE "other"

\* the card's block acknowledges the I-block the host sent last
AcksLastI(h, pcb) ==
    /\ h.lastI # -1
    /\ \/ T1PRIME_PCB_IS_R(pcb)
          /\ T1PRIME_PCB_R_GET_NR(pcb) = Xor1(T1PRIME_PCB_I_GET_NS(h.lastI))
       \/ T1PRIME_PCB_IS_I(pcb) /\ ~T1PRIME_PCB_I_HAS_MORE(h.lastI)

(***************************************************************************)
(* Initial state: a protocol object after t1prime_initialize, with the     *)
(* lazily initialized protocol state of t1prime_get_protocol_state         *)
(***************************************************************************)
t1prime_get_protocol_state ==
    [bwt |-> T1PRIME_DEFAULT_BWT, mpot |-> T1PRIME_DEFAULT_I2C_MPOT,
     ifsc |-> T1PRIME_MAX_IFS, send_counter |-> 0, receive_counter |-> 0,
     wtx_delay |-> 0]

Init ==
    /\ protocol_state = t1prime_get_protocol_state
    /\ op = "none"
    /\ pc = "idle"
    /\ ret = "none"
    /\ frame = NoFrame
    /\ transmission_block = NoBlock
    /\ response = NullResponse
    /\ status = SUCCESS
    /\ bt = NoBt
    /\ hist = NoHist

(***************************************************************************)
(* CIP, DLLP and I2C PLP decoding (bytes are indexed from 1 here)          *)
(***************************************************************************)
t1prime_cip_validate(cip) ==
    IF Len(cip.iin) < 3 \/ Len(cip.iin) > 4
    THEN IFX_ERROR(LIBT1PRIME, T1PRIME_CIP_VALIDATE, INVALID_LENGTH)
    ELSE IF cip.plid = PLID_SPI /\ Len(cip.plp) < 12
    THEN IFX_ERROR(LIBT1PRIME, T1PRIME_CIP_VALIDATE, TOO_LITTLE_DATA)
    ELSE IF cip.plid = PLID_I2C /\ Len(cip.plp) < 8
    THEN IFX_ERROR(LIBT1PRIME, T1PRIME_CIP_VALIDATE, TOO_LITTLE_DATA)
    ELSE IF cip.plid # PLID_SPI /\ cip.plid # PLID_I2C
    THEN IFX_ERROR(LIBT1PRIME, T1PRIME_CIP_VALIDATE, INVALID_PLID)
    ELSE IF Len(cip.dllp) < 4
    THEN IFX_ERROR(LIBT1PRIME, T1PRIME_CIP_VALIDATE, TOO_LITTLE_DATA)
    ELSE SUCCESS

NoCip == [version |-> 0, iin |-> <<>>, plid |-> 0, plp |-> <<>>,
          dllp |-> <<>>, hb |-> <<>>]

t1prime_cip_decode(data) ==
    LET data_len == Len(data)
        little == [status |-> IFX_ERROR(LIBT1PRIME, T1PRIME_CIP_DECODE, TOO_LITTLE_DATA),
                   cip |-> NoCip]
    IN  IF data_len < 6 THEN little
        ELSE LET iin_len == data[2]
                 o1 == 2
             IN  IF (o1 + iin_len + 4) > data_len THEN little
                 ELSE LET o2 == o1 + iin_len
                          plid == data[o2 + 1]
                          plp_len == data[o2 + 2]
                          o3 == o2 + 2
                      IN  IF (o3 + plp_len + 2) > data_len THEN little
                          ELSE LET o4 == o3 + plp_len
                                   dllp_len == data[o4 + 1]
                                   o5 == o4 + 1
                               IN  IF (o5 + dllp_len + 1) > data_len THEN little
                                   ELSE LET o6 == o5 + dllp_len
                                            hb_len == data[o6 + 1]
                                            o7 == o6 + 1
                                            cip == [version |-> data[1],
                                                    iin |-> SubSeq(data, o1 + 1, o2),
                                                    plid |-> plid,
                                                    plp |-> SubSeq(data, o3 + 1, o4),
                                                    dllp |-> SubSeq(data, o5 + 1, o6),
                                                    hb |-> SubSeq(data, o7 + 1, o7 + hb_len)]
                                        IN  IF (o7 + hb_len) # data_len
                                            THEN [status |-> IFX_ERROR(LIBT1PRIME,
                                                      T1PRIME_CIP_DECODE, INVALID_LENGTH),
                                                  cip |-> NoCip]
                                            ELSE IF t1prime_cip_validate(cip) # SUCCESS
                                            THEN [status |-> t1prime_cip_validate(cip),
                                                  cip |-> NoCip]
                                            ELSE [status |-> SUCCESS, cip |-> cip]

\* variant: the two fields of the DLLP are read in the other order
t1prime_dllp_decode_Swapped(encoded) ==
    IF Len(encoded) < 4
    THEN [status |-> IFX_ERROR(LIBT1PRIME, T1PRIME_DLLP_DECODE, TOO_LITTLE_DATA),
          bwt |-> 0, ifsc |-> 0]
    ELSE [status |-> SUCCESS,
          bwt |-> encoded[3] * 256 + encoded[4],
          ifsc |-> encoded[1] * 256 + encoded[2]]

t1prime_dllp_decode(encoded) ==
    IF Len(encoded) < 4
    THEN [status |-> IFX_ERROR(LIBT1PRIME, T1PRIME_DLLP_DECODE, TOO_LITTLE_DATA),
          bwt |-> 0, ifsc |-> 0]
    ELSE [status |-> SUCCESS,
          bwt |-> encoded[1] * 256 + encoded[2],
          ifsc |-> encoded[3] * 256 + encoded[4]]

t1prime_i2c_plp_decode(encoded) ==
    IF Len(encoded) < 8
    THEN [status |-> IFX_ERROR(LIBT1PRIME, T1PRIME_PLP_DECODE, TOO_LITTLE_DATA),
          mcf |-> 0, mpot |-> 0]
    ELSE [status |-> SUCCESS,
          mcf |-> encoded[3] * 256 + encoded[4],
          mpot |-> encoded[6]]

(***************************************************************************)
(* Calling t1prime_block_transceive and returning from an operation        *)
(***************************************************************************)
\* variant: the exchange starts by reading a block
CallReceiveFirst(block, caller, h) ==
    /\ bt' = [block |-> block, to_send |-> block, try |-> 0]
    /\ ret' = caller
    /\ pc' = "receive"
    /\ hist' = [h EXCEPT !.txCount = 0, !.lastTx = NoBlock, !.lastRx = "none",
                          !.exhausted = FALSE, !.onlyBadCrc = TRUE]

Call(block, caller, h) ==
    /\ bt' = [block |-> block, to_send |-> block, try |-> 0]
    /\ ret' = caller
    /\ pc' = "transmit"
    /\ hist' = [h EXCEPT !.txCount = 0, !.lastTx = NoBlock, !.lastRx = "none",
                          !.exhausted = FALSE, !.onlyBadCrc = TRUE]

\* what the observer keeps of an operation that has returned
EndOfOperation(h) ==
    [h EXCEPT !.sentI = <<>>, !.lastI = -1, !.outstanding = FALSE,
              !.sawIfsReq = FALSE, !.sawRetransmitReq = FALSE,
              !.lastTx = NoBlock, !.ifsShrink = -1,
              !.lastIInfo = <<>>, !.shrunk = FALSE]

Finish(st, resp, h) ==
    /\ pc' = "done"
    /\ status' = st
    /\ response' = resp
    /\ frame' = NoFrame
    /\ transmission_block' = NoBlock
    /\ bt' = NoBt
    /\ ret' = "none"
    /\ hist' = EndOfOperation(h)

Idle == pc \in {"idle", "done"}

StartHist == [NoHist EXCEPT !.s0 = protocol_state.send_counter,
                            !.r0 = protocol_state.receive_counter,
                            !.ifsc0 = protocol_state.ifsc,
                            !.bwt0 = protocol_state.bwt,
                            !.firstExchange = TRUE]

(***************************************************************************)
(* t1prime_transceive: entry                                               *)
(***************************************************************************)
Requests == { [i \in 1..n |-> i] : n \in 0..MaxReqLen }

Chunk(data, offset, size) == SubSeq(data, offset + 1, offset + size)

\* variant: one byte per I-block, whatever the card's IFSC
InformationSizeOneByte(remaining, ifsc) == IF remaining < 1 THEN remaining ELSE 1

\* information_size of the next I-block: remaining < ifsc ? remaining : ifsc
InformationSize(remaining, ifsc) == IF remaining < ifsc THEN remaining ELSE ifsc

t1prime_transceive(data) ==
    /\ Idle
    /\ op' = "transceive"
    /\ UNCHANGED protocol_state
    /\ IF Len(data) = 0
       THEN Finish(IFX_ERROR(LIBT1PRIME, PROTOCOL_TRANSCEIVE, ILLEGAL_ARGUMENT),
                   NullResponse, StartHist)
       ELSE LET size == InformationSize(Len(data), protocol_state.ifsc)
                tb == Block(NAD_HD_TO_SE,
                            T1PRIME_PCB_I(protocol_state.send_counter,
                                          (Len(data) - size) > 0),
                            Chunk(data, 0, size))
            IN  /\ frame' = [data |-> data, offset |-> 0, remaining |-> Len(data),
                             last_information_size |-> size, aborted |-> FALSE,
                             ifsd |-> 0]
                /\ transmission_block' = tb
                /\ response' = NullResponse
                /\ status' = SUCCESS
                /\ Call(tb, "send", [StartHist EXCEPT !.reqLen = Len(data)])

(***************************************************************************)
(* t1prime_transceive: second loop, one iteration on response_block        *)
(***************************************************************************)
\* variant: every I-block replaces the response buffer
AccumulateLastBlockOnly(resp, information) == [null |-> FALSE, bytes |-> information]

\* the response buffer after an I-block with the expected N(S)
Accumulate(resp, information) ==
    IF resp.null
    THEN [null |-> FALSE, bytes |-> information]
    ELSE IF Len(information) > 0
         THEN [null |-> FALSE, bytes |-> resp.bytes \o information]
         ELSE resp

\* first response I-block without data
EmptyFirstBlock(resp, information) == resp.null /\ Len(information) = 0

\* variant: every R-block empties the response buffer
AfterRBlockDroppingResponse(resp, pcb, send_counter) == NullResponse

\* the response buffer after an R-block
AfterRBlock(resp, pcb, send_counter) ==
    IF T1PRIME_PCB_R_GET_NR(pcb) # send_counter THEN NullResponse ELSE resp

\* variant: a failed block exchange puts the counters back to 0
transceive_failed_ResettingCounters(st, h) ==
    /\ Finish(st, NullResponse, h)
    /\ protocol_state' = [protocol_state EXCEPT !.send_counter = 0,
                                                !.receive_counter = 0]

\* the block exchange failed: the response is dropped, its status returned
transceive_failed(st, h) ==
    /\ Finish(st, NullResponse, h)
    /\ UNCHANGED protocol_state

\* variant: a block the receive phase does not handle ends the call with the
\* bytes accumulated so far
transceive_other_block_KeepingResponse(ps, resp0, h) ==
    /\ Finish(IFX_ERROR(LIBT1PRIME, PROTOCOL_TRANSCEIVE, INVALID_BLOCK), resp0, h)
    /\ protocol_state' = ps

\* receive phase, a block that is neither I, R nor S(ABORT request): the
\* response cache is deleted and InvalidBlock returned
transceive_other_block(ps, resp0, h) ==
    /\ Finish(IFX_ERROR(LIBT1PRIME, PROTOCOL_TRANSCEIVE, INVALID_BLOCK), NullResponse, h)
    /\ protocol_state' = ps

transceive_receive(ps, st, response_block, resp0, h) ==
    LET pcb == response_block.pcb
        Fail(s) == /\ Finish(s, NullResponse, h)
                   /\ protocol_state' = ps
        Ack(n, resp, tb, caller) ==
            /\ protocol_state' = n
            /\ response' = resp
            /\ transmission_block' = tb
            /\ frame' = NoFrame
            /\ Call(tb, caller, h)
            /\ UNCHANGED status
    IN  IF st # SUCCESS THEN transceive_failed(st, h)
        ELSE IF T1PRIME_PCB_IS_I(pcb)
        THEN IF T1PRIME_PCB_I_GET_NS(pcb) # ps.receive_counter
             THEN Fail(IFX_ERROR(LIBT1PRIME, PROTOCOL_TRANSCEIVE, INVALID_BLOCK))
             ELSE IF EmptyFirstBlock(resp0, response_block.information)
             THEN Fail(IFX_ERROR(LIBT1PRIME, PROTOCOL_TRANSCEIVE, INVALID_BLOCK))
             ELSE LET resp == Accumulate(resp0, response_block.information)
                      n == [ps EXCEPT !.receive_counter = Xor1(@)]
                  IN  IF T1PRIME_PCB_I_HAS_MORE(pcb)
                      THEN Ack(n, resp,
                               Block(NAD_HD_TO_SE, T1PRIME_PCB_R_ACK(n.receive_counter), <<>>),
                               "recv")
                      ELSE /\ protocol_state' = n
                           /\ Finish(SUCCESS, resp, h)
        ELSE IF T1PRIME_PCB_IS_R(pcb)
        THEN Ack(ps, AfterRBlock(resp0, pcb, ps.send_counter),
                 Block(NAD_HD_TO_SE, T1PRIME_PCB_R_ACK(ps.receive_counter), <<>>),
                 "recv")
        ELSE IF pcb = T1PRIME_PCB_S_ABORT_REQ
        THEN Ack(ps, NullResponse,
                 Block(NAD_HD_TO_SE, T1PRIME_PCB_S_ABORT_RESP, <<>>),
                 "recv_abort")
        ELSE transceive_other_block(ps, resp0, h)

\* variant: the result of the exchange of S(ABORT response) is returned
AbortStatusOfExchange(st) == st

\* after the exchange of S(ABORT response): its result is not looked at
AbortStatus(st) == IFX_ERROR(LIBT1PRIME, PROTOCOL_TRANSCEIVE, TRANSCEIVE_ABORTED)

transceive_abort(st, h) ==
    /\ Finish(AbortStatus(st), NullResponse, h)
    /\ UNCHANGED protocol_state

(***************************************************************************)
(* t1prime_transceive: first loop, one iteration after the block exchange  *)
(***************************************************************************)
\* variant: the acknowledgement of the last chunk advances S at once
AckOfLastChunkTogglingS(ps, fr) ==
    [tb |-> Block(NAD_HD_TO_SE, T1PRIME_PCB_R_CRC(ps.receive_counter), <<>>),
     ps |-> [ps EXCEPT !.send_counter = Xor1(@)], fr |-> fr]

\* R(N(R)) with the next sequence number while the last chunk is out
AckOfLastChunk(ps, fr) ==
    [tb |-> Block(NAD_HD_TO_SE, T1PRIME_PCB_R_CRC(ps.receive_counter), <<>>),
     ps |-> ps, fr |-> fr]

\* variant: the offset into the request is not advanced
NextChunkSameOffset(ps, fr) ==
    LET remaining == fr.remaining - fr.last_information_size
        sc == Xor1(ps.send_counter)
        size == IF remaining < ps.ifsc THEN remaining ELSE ps.ifsc
    IN  [tb |-> Block(NAD_HD_TO_SE, T1PRIME_PCB_I(sc, (remaining - size) > 0),
                      SubSeq(fr.data, fr.offset + 1, fr.offset + size)),
         ps |-> [ps EXCEPT !.send_counter = sc],
         fr |-> [fr EXCEPT !.remaining = remaining, !.last_information_size = size]]

\* R(N(R)) with the next sequence number while chunks remain
NextChunk(ps, fr) ==
    LET remaining == fr.remaining - fr.last_information_size
        offset == fr.offset + fr.last_information_size
        sc == Xor1(ps.send_counter)
        size == InformationSize(remaining, ps.ifsc)
    IN  [tb |-> Block(NAD_HD_TO_SE, T1PRIME_PCB_I(sc, (remaining - size) > 0),
                      Chunk(fr.data, offset, size)),
         ps |-> [ps EXCEPT !.send_counter = sc],
         fr |-> [fr EXCEPT !.remaining = remaining, !.offset = offset,
                           !.last_information_size = size]]

\* variant: the block is sent again under the next sequence number
RetransmitWithNextCounter(ps, fr) ==
    [tb |-> Block(NAD_HD_TO_SE,
                  T1PRIME_PCB_I(Xor1(ps.send_counter),
                                (fr.remaining - fr.last_information_size) > 0),
                  Chunk(fr.data, fr.offset, fr.last_information_size)),
     ps |-> ps, fr |-> fr]

\* R(N(R)) with the current sequence number
Retransmit(ps, fr) ==
    [tb |-> Block(NAD_HD_TO_SE,
                  T1PRIME_PCB_I(ps.send_counter,
                                (fr.remaining - fr.last_information_size) > 0),
                  Chunk(fr.data, fr.offset, fr.last_information_size)),
     ps |-> ps, fr |-> fr]

\* variant: the waiting time extension is answered but not recorded
WtxResponseWithoutDelay(ps, fr, information) ==
    [tb |-> Block(NAD_HD_TO_SE, T1PRIME_PCB_S_WTX_RESP, information),
     ps |-> ps, fr |-> fr]

\* S(WTX request)
WtxResponse(ps, fr, information) ==
    [tb |-> Block(NAD_HD_TO_SE, T1PRIME_PCB_S_WTX_RESP, information),
     ps |-> [ps EXCEPT !.wtx_delay = information[1] * ps.bwt],
     fr |-> fr]

\* S(IFS request) with a value that t1prime_ifs_decode accepts
IfsResponse(ps, fr, information, ifs) ==
    [tb |-> Block(NAD_HD_TO_SE, T1PRIME_PCB_S_IFS_RESP, information),
     ps |-> ps,
     fr |-> [fr EXCEPT !.last_information_size = Min(ifs, @)]]

\* variant: the abort request is taken as an acknowledgement of the chunk
AbortResponseTogglingS(ps, fr) ==
    [tb |-> Block(NAD_HD_TO_SE, T1PRIME_PCB_S_ABORT_RESP, <<>>),
     ps |-> [ps EXCEPT !.send_counter = Xor1(@)],
     fr |-> [fr EXCEPT !.aborted = TRUE]]

\* S(ABORT request)
AbortResponse(ps, fr) ==
    [tb |-> Block(NAD_HD_TO_SE, T1PRIME_PCB_S_ABORT_RESP, <<>>),
     ps |-> ps,
     fr |-> [fr EXCEPT !.aborted = TRUE]]

\* R(N(R)) with the next sequence number after S(ABORT request)
AbortedStatus(aborted) ==
    IF aborted
    THEN IFX_ERROR(LIBT1PRIME, PROTOCOL_TRANSCEIVE, TRANSCEIVE_ABORTED)
    ELSE SUCCESS

\* the observer's record of the send phase ends with the send phase
EndOfSendPhase(h) ==
    [h EXCEPT !.sentI = <<>>, !.lastI = -1, !.outstanding = FALSE,
              !.sawIfsReq = FALSE, !.sawRetransmitReq = FALSE, !.ifsShrink = -1,
              !.lastIInfo = <<>>, !.shrunk = FALSE]

transceive_send(st, response_block, h) ==
    LET pcb == response_block.pcb
        ps == protocol_state
        more == (frame.remaining - frame.last_information_size) > 0
        Fail(s) == /\ Finish(s, NullResponse, h)
                   /\ UNCHANGED protocol_state
        Go(n) == /\ protocol_state' = n.ps
                 /\ frame' = n.fr
                 /\ transmission_block' = n.tb
                 /\ Call(n.tb, "send", h)
                 /\ UNCHANGED <<response, status>>
    IN  IF st # SUCCESS THEN transceive_failed(st, h)
        ELSE IF T1PRIME_PCB_IS_I(pcb)
        THEN IF more
             THEN Fail(IFX_ERROR(LIBT1PRIME, PROTOCOL_TRANSCEIVE, INVALID_BLOCK))
             ELSE transceive_receive([ps EXCEPT !.send_counter = Xor1(@)], st,
                                     response_block, NullResponse, EndOfSendPhase(h))
        ELSE IF T1PRIME_PCB_IS_R(pcb)
        THEN IF Xor1(ps.send_counter) = T1PRIME_PCB_R_GET_NR(pcb)
             THEN IF AbortedStatus(frame.aborted) # SUCCESS
                  THEN Fail(AbortedStatus(frame.aborted))
                  ELSE IF ~more
                  THEN Go(AckOfLastChunk(ps, frame))
                  ELSE Go(NextChunk(ps, frame))
             ELSE Go(Retransmit(ps, frame))
        ELSE IF pcb = T1PRIME_PCB_S_WTX_REQ
        THEN IF Len(response_block.information) # 1
             THEN Fail(IFX_ERROR(LIBT1PRIME, PROTOCOL_TRANSCEIVE, INVALID_BLOCK))
             ELSE Go(WtxResponse(ps, frame, response_block.information))
        ELSE IF pcb = T1PRIME_PCB_S_IFS_REQ
        THEN LET d == t1prime_ifs_decode(response_block.information)
             IN  IF d.status # SUCCESS
                 THEN Fail(d.status)
                 ELSE Go(IfsResponse(ps, frame, response_block.information, d.ifs))
        ELSE IF pcb = T1PRIME_PCB_S_ABORT_REQ
        THEN Go(AbortResponse(ps, frame))
        ELSE Fail(IFX_ERROR(LIBT1PRIME, PROTOCOL_TRANSCEIVE, INVALID_BLOCK))

(***************************************************************************)
(* s_resynch / s_swr after the block exchange                              *)
(***************************************************************************)
\* variant: the counters are reset whatever the exchange returned
ResetCountersAlways(st, response_block, expected_pcb, h) ==
    /\ protocol_state' = [protocol_state EXCEPT !.send_counter = 0,
                                                !.receive_counter = 0]
    /\ Finish(IF st # SUCCESS THEN st
              ELSE IF response_block.pcb # expected_pcb
                   THEN IFX_ERROR(LIBT1PRIME, PROTOCOL_RECEIVE, INVALID_BLOCK)
                   ELSE SUCCESS,
              NullResponse, h)

ResetCounters(st, response_block, expected_pcb, h) ==
    IF st # SUCCESS
    THEN /\ Finish(st, NullResponse, h)
         /\ UNCHANGED protocol_state
    ELSE IF response_block.pcb # expected_pcb
    THEN /\ Finish(IFX_ERROR(LIBT1PRIME, PROTOCOL_RECEIVE, INVALID_BLOCK), NullResponse, h)
         /\ UNCHANGED protocol_state
    ELSE /\ protocol_state' = [protocol_state EXCEPT !.send_counter = 0,
                                                     !.receive_counter = 0]
         /\ Finish(SUCCESS, NullResponse, h)

(***************************************************************************)
(* t1prime_set_ifsd after the exchange of S(IFS request)                   *)
(***************************************************************************)
\* variant: any decodable S(IFS response) is accepted
set_ifsd_response_AnyValue(st, response_block, ifsd, h) ==
    LET d == t1prime_ifs_decode(response_block.information)
    IN  /\ UNCHANGED protocol_state
        /\ Finish(IF st # SUCCESS THEN st
                  ELSE IF response_block.pcb # T1PRIME_PCB_S_IFS_RESP
                  THEN IFX_ERROR(LIBT1PRIME, PROTOCOL_RECEIVE, INVALID_BLOCK)
                  ELSE IF d.status # SUCCESS
                  THEN IFX_ERROR(LIBT1PRIME, PROTOCOL_RECEIVE, INVALID_BLOCK)
                  ELSE SUCCESS,
                  NullResponse, h)

set_ifsd_response(st, response_block, ifsd, h) ==
    LET d == t1prime_ifs_decode(response_block.information)
    IN  /\ UNCHANGED protocol_state
        /\ Finish(IF st # SUCCESS THEN st
                  ELSE IF response_block.pcb # T1PRIME_PCB_S_IFS_RESP
                  THEN IFX_ERROR(LIBT1PRIME, PROTOCOL_RECEIVE, INVALID_BLOCK)
                  ELSE IF d.status # SUCCESS
                  THEN IFX_ERROR(LIBT1PRIME, PROTOCOL_RECEIVE, INVALID_BLOCK)
                  ELSE IF d.ifs # ifsd
                  THEN IFX_ERROR(LIBT1PRIME, PROTOCOL_RECEIVE, INVALID_BLOCK)
                  ELSE SUCCESS,
                  NullResponse, h)

(***************************************************************************)
(* t1prime_activate after the exchange of S(CIP request): the checks of    *)
(* s_cip, then the parameters of the CIP, then s_resynch                   *)
(***************************************************************************)
s_cip(st, response_block, h) ==
    LET Fail(s, ps) == /\ Finish(s, NullResponse, h)
                       /\ protocol_state' = ps
        ps == protocol_state
    IN  IF st # SUCCESS THEN Fail(st, ps)
        ELSE IF response_block.pcb # T1PRIME_PCB_S_CIP_RESP
        THEN Fail(IFX_ERROR(LIBT1PRIME, PROTOCOL_RECEIVE, INVALID_BLOCK), ps)
        ELSE LET c == t1prime_cip_decode(response_block.information)
             IN  IF c.status # SUCCESS THEN Fail(c.status, ps)
                 ELSE LET dllp == t1prime_dllp_decode(c.cip.dllp)
                          ps1 == [ps EXCEPT !.bwt = dllp.bwt, !.ifsc = dllp.ifsc]
                      IN  IF dllp.status # SUCCESS THEN Fail(dllp.status, ps)
                          ELSE IF c.cip.plid = PLID_I2C
                          THEN LET plp == t1prime_i2c_plp_decode(c.cip.plp)
                                   req == Block(NAD_HD_TO_SE, T1PRIME_PCB_S_RESYNCH_REQ, <<>>)
                               IN  IF plp.status # SUCCESS THEN Fail(plp.status, ps1)
                                   ELSE /\ protocol_state' = [ps1 EXCEPT !.mpot = plp.mpot]
                                        /\ Call(req, "resynch", h)
                                        /\ UNCHANGED <<frame, transmission_block,
                                                       response, status>>
                          ELSE Fail(IFX_ERROR(LIBT1PRIME, T1PRIME_CIP_VALIDATE, INVALID_PLID),
                                    ps1)

(***************************************************************************)
(* Return of t1prime_block_transceive into its caller                      *)
(***************************************************************************)
Return(caller, st, response_block, h0) ==
    LET h == [h0 EXCEPT !.btStatus = st, !.firstExchange = FALSE]
    IN  CASE caller = "send" -> transceive_send(st, response_block, h)
          [] caller = "recv" -> transceive_receive(protocol_state, st, response_block,
                                                   response, h)
          [] caller = "recv_abort" -> transceive_abort(st, h)
          [] caller = "cip" -> s_cip(st, response_block, h)
          [] caller = "resynch" -> ResetCounters(st, response_block,
                                                 T1PRIME_PCB_S_RESYNCH_RESP, h)
          [] caller = "swr" -> ResetCounters(st, response_block,
                                             T1PRIME_PCB_S_SWR_RESP, h)
          [] caller = "ifsd" -> set_ifsd_response(st, response_block, frame.ifsd, h)

(***************************************************************************)
(* t1prime_block_transceive: transmit of one attempt                       *)
(***************************************************************************)
t1prime_block_transmit ==
    /\ pc = "transmit"
    /\ UNCHANGED op
    /\ LET b == bt.to_send
           isI == op = "transceive" /\ T1PRIME_PCB_IS_I(b.pcb)
           newChunk == \/ hist.lastI = -1
                       \/ T1PRIME_PCB_I_GET_NS(b.pcb) # T1PRIME_PCB_I_GET_NS(hist.lastI)
       IN  IF Len(b.information) > protocol_state.ifsc
           THEN Return(ret, IFX_ERROR(LIBT1PRIME, PROTOCOL_TRANSMIT, ILLEGAL_ARGUMENT),
                       NoBlock, hist)
           ELSE /\ protocol_state' = [protocol_state EXCEPT !.wtx_delay = 0]
                /\ pc' = "receive"
                /\ hist' = [hist EXCEPT
                       !.txCount = @ + 1,
                       !.lastTx = b,
                       !.sentI = IF isI /\ ~hist.sawIfsReq /\ ~hist.sawRetransmitReq
                                 THEN Append(@, [pcb |-> b.pcb,
                                                 information |-> b.information])
                                 ELSE @,
                       !.lastI = IF isI THEN b.pcb ELSE @,
                       !.lastIInfo = IF isI THEN b.information ELSE @,
                       !.shrunk = IF isI THEN FALSE ELSE @,
                       !.rxKind = "none",
                       !.rxMore = FALSE,
                       !.bus = "tx",
                       !.alternates = @ /\ hist.bus # "tx",
                       !.outstanding = IF isI /\ newChunk THEN TRUE ELSE @,
                       !.txAfterAbort = IF hist.abortAt # "none" /\ @ = <<>>
                                        THEN <<b>> ELSE @,
                       !.sawResynchTx = @ \/ (op = "activate"
                                                 /\ b.pcb = T1PRIME_PCB_S_RESYNCH_REQ),
                       !.ifsAnswered = IF op = "transceive"
                                            /\ b.pcb = T1PRIME_PCB_S_IFS_RESP
                                       THEN t1prime_ifs_decode(b.information).ifs
                                       ELSE @]
                /\ UNCHANGED <<ret, frame, transmission_block, response, status, bt>>

(***************************************************************************)
(* t1prime_block_transceive: receive of one attempt, the retry decision    *)
(* and, when the exchange is over, the caller's code up to its next block  *)
(* exchange or its return                                                  *)
(***************************************************************************)
\* the reply the card owes to the block the host sent last, or a reply
\* with a bad CRC while the retries of the exchange can still absorb it
HonestReply(h, f) ==
    IF FrameKind(f) = "badcrc"
    THEN bt.try < T1PRIME_BLOCK_TRANSCEIVE_RETRIES
    ELSE /\ FrameKind(f) = "block"
         /\ IF ret = "send" /\ T1PRIME_PCB_I_HAS_MORE(bt.block.pcb)
            THEN /\ T1PRIME_PCB_IS_I(bt.block.pcb)
                 /\ f.pcb = T1PRIME_PCB_R_ACK(Xor1(protocol_state.send_counter))
            ELSE /\ ret \in {"send", "recv"}
                 /\ ret = "send" => T1PRIME_PCB_IS_I(bt.block.pcb)
                 /\ T1PRIME_PCB_IS_I(f.pcb)
                 /\ T1PRIME_PCB_I_GET_NS(f.pcb) = protocol_state.receive_counter
                 /\ (h.nCardI = 0 => f.information # <<>>)

ObserveRx(h, f, rx) ==
    LET pcb == rx.block.pcb
        good == rx.status = SUCCESS /\ op = "transceive"
        expectedI == good /\ T1PRIME_PCB_IS_I(pcb)
                       /\ T1PRIME_PCB_I_GET_NS(pcb) = protocol_state.receive_counter
        ack == good /\ ret = "send" /\ h.outstanding /\ AcksLastI(h, pcb)
        abort == good /\ pcb = T1PRIME_PCB_S_ABORT_REQ /\ h.abortAt = "none"
                   /\ ret \in {"send", "recv"}
        ifsReq == good /\ ret = "send" /\ pcb = T1PRIME_PCB_S_IFS_REQ
        retransmitReq == good /\ ret = "send" /\ T1PRIME_PCB_IS_R(pcb)
                           /\ ~AcksLastI(h, pcb)
        ifs == t1prime_ifs_decode(rx.block.information)
        shrink == ifsReq /\ ifs.status = SUCCESS /\ ifs.ifs < frame.last_information_size
        cipResp == rx.status = SUCCESS /\ op = "activate" /\ ret = "cip"
                     /\ pcb = T1PRIME_PCB_S_CIP_RESP
        wtxReq == good /\ ret = "send" /\ pcb = T1PRIME_PCB_S_WTX_REQ
                    /\ Len(rx.block.information) = 1
        afterWtx == good /\ ret = "send" /\ bt.block.pcb = T1PRIME_PCB_S_WTX_RESP
                      /\ expectedI /\ ~T1PRIME_PCB_I_HAS_MORE(pcb)
                      /\ rx.block.information # <<>>
                      /\ frame.remaining = frame.last_information_size
    IN  [h EXCEPT
           !.nCardI = IF expectedI THEN @ + 1 ELSE @,
           !.cardBytes = IF expectedI THEN @ \o rx.block.information ELSE @,
           !.ackedParity = IF ack THEN Xor1(@) ELSE @,
           !.sentI = IF ifsReq \/ retransmitReq THEN <<>> ELSE @,
           !.outstanding = IF ack THEN FALSE ELSE @,
           !.sawIfsReq = @ \/ ifsReq,
           !.sawRetransmitReq = @ \/ retransmitReq,
           !.abortAt = IF abort THEN ret ELSE @,
           !.txAfterAbort = IF abort THEN <<>> ELSE @,
           !.abortFirstChained = @ \/ (abort /\ ret = "send" /\ h.firstExchange
                                          /\ T1PRIME_PCB_IS_I(bt.block.pcb)
                                          /\ T1PRIME_PCB_I_HAS_MORE(bt.block.pcb)),
           !.ifsShrink = IF shrink THEN ifs.ifs ELSE @,
           !.wtxM = IF wtxReq THEN rx.block.information[1] ELSE -1,
           !.wtxS = IF wtxReq THEN protocol_state.send_counter ELSE -1,
           !.wtxR = IF wtxReq THEN protocol_state.receive_counter ELSE -1,
           !.wtxThenI = @ \/ afterWtx,
           !.cipInfo = IF cipResp THEN rx.block.information ELSE @,
           !.matched = @ \/ (rx.status = SUCCESS /\ op \in {"resynch", "swr"}
                               /\ IsSRequest(bt.block.pcb)
                               /\ pcb = T1PRIME_PCB_S(T1PRIME_PCB_S_GET_TYPE(bt.block.pcb),
                                                      TRUE)),
           !.cipParsed = @ \/ (cipResp /\ t1prime_cip_decode(rx.block.information).status
                                              = SUCCESS),
           !.rxKind = IF good THEN RxKind(pcb, protocol_state) ELSE "none",
           !.wrongNr = @ \/ (good /\ ret = "recv" /\ T1PRIME_PCB_IS_R(pcb)
                                /\ T1PRIME_PCB_R_GET_NR(pcb) # protocol_state.send_counter),
           !.shrunk = @ \/ shrink,
           !.bus = "rx",
           !.alternates = @ /\ h.bus = "tx",
           !.rxMore = good /\ T1PRIME_PCB_IS_I(pcb) /\ T1PRIME_PCB_I_HAS_MORE(pcb),
           !.rxBlock = IF op # "transceive"
                       THEN IF rx.status = SUCCESS THEN rx.block ELSE NoBlock
                       ELSE @,
           !.honest = @ /\ op = "transceive" /\ HonestReply(h, f)]

t1prime_block_transceive(f) ==
    /\ pc = "receive"
    /\ UNCHANGED op
    /\ LET rx == t1prime_block_receive(f)
           v == t1prime_block_transceive_validate(bt.block, rx, protocol_state.send_counter)
           h == ObserveRx(hist, f, rx)
           try1 == bt.try + 1
       IN  /\ h.nCardI <= MaxIBlocksRecv
           /\ IF v.returns
              THEN Return(ret, v.status,
                          IF v.status = SUCCESS THEN rx.block ELSE NoBlock, h)
              ELSE IF RetryAllowed(try1)
              THEN /\ bt' = [bt EXCEPT
                          !.to_send = RetryBlock(bt.block, bt.to_send,
                                                 protocol_state.receive_counter),
                          !.try = try1]
                   /\ pc' = "transmit"
                   /\ hist' = [h EXCEPT !.onlyBadCrc = @ /\ FrameKind(f) = "badcrc"]
                   /\ UNCHANGED <<protocol_state, ret, frame, transmission_block,
                                  response, status>>
              ELSE Return(ret, v.status, NoBlock,
                          [h EXCEPT !.exhausted = TRUE, !.lastRx = FrameKind(f),
                                    !.onlyBadCrc = @ /\ FrameKind(f) = "badcrc"])

(***************************************************************************)
(* t1prime_activate, s_resynch and s_swr: entry                            *)
(***************************************************************************)
StartLocals ==
    /\ frame' = NoFrame
    /\ transmission_block' = NoBlock
    /\ response' = NullResponse
    /\ status' = SUCCESS

t1prime_activate ==
    /\ Idle
    /\ op' = "activate"
    /\ protocol_state' = [protocol_state EXCEPT !.ifsc = T1PRIME_DEFAULT_IFSC,
                                                !.bwt = T1PRIME_DEFAULT_BWT]
    /\ StartLocals
    /\ Call(Block(NAD_HD_TO_SE, T1PRIME_PCB_S_CIP_REQ, <<>>), "cip", StartHist)

s_resynch ==
    /\ Idle
    /\ op' = "resynch"
    /\ UNCHANGED protocol_state
    /\ StartLocals
    /\ Call(Block(NAD_HD_TO_SE, T1PRIME_PCB_S_RESYNCH_REQ, <<>>), "resynch", StartHist)

s_swr ==
    /\ Idle
    /\ op' = "swr"
    /\ UNCHANGED protocol_state
    /\ StartLocals
    /\ Call(Block(NAD_HD_TO_SE, T1PRIME_PCB_S_SWR_REQ, <<>>), "swr", StartHist)

(***************************************************************************)
(* t1prime_set_bwt                                                         *)
(***************************************************************************)
BwtValues == {0, 100}

t1prime_set_bwt(bwt) ==
    /\ Idle
    /\ op' = "set_bwt"
    /\ protocol_state' = [protocol_state EXCEPT !.bwt = bwt % 65536]
    /\ Finish(SUCCESS, NullResponse, StartHist)

(***************************************************************************)
(* t1prime_set_ifsd: entry                                                 *)
(***************************************************************************)
IfsdValues == {0, 1, 254, 255, 258, 4089, 4090}

t1prime_set_ifsd(ifsd) ==
    /\ Idle
    /\ op' = "set_ifsd"
    /\ UNCHANGED protocol_state
    /\ LET e == t1prime_ifs_encode(ifsd)
           h == [StartHist EXCEPT !.ifsd = ifsd]
       IN  IF e.status # SUCCESS
           THEN Finish(e.status, NullResponse, h)
           ELSE /\ frame' = [NoFrame EXCEPT !.ifsd = ifsd]
                /\ transmission_block' = NoBlock
                /\ response' = NullResponse
                /\ status' = SUCCESS
                /\ Call(Block(NAD_HD_TO_SE, T1PRIME_PCB_S_IFS_REQ, e.buffer), "ifsd", h)

(***************************************************************************)
(* Specification                                                           *)
(***************************************************************************)
Next ==
    \/ \E data \in Requests : t1prime_transceive(data)
    \/ t1prime_block_transmit
    \/ \E f \in CardFramesAt(ret, hist.nCardI) : t1prime_block_transceive(f)
    \/ t1prime_activate
    \/ s_resynch
    \/ s_swr
    \/ \E ifsd \in IfsdValues : t1prime_set_ifsd(ifsd)

Spec == Init /\ [][Next]_vars

\* a card whose R-blocks all carry a low nibble other than 0 (ack), 1 (crc
\* error) and 2 (other error)
UndefinedRFramesAt(caller, nCardI) ==
    { f \in CardFramesAt(caller, nCardI) :
        f \in CardRFrames => (f.pcb % 16) \notin {0, 1, 2} }

NextUndefinedR ==
    \/ \E data \in Requests : t1prime_transceive(data)
    \/ t1prime_block_transmit
    \/ \E f \in UndefinedRFramesAt(ret, hist.nCardI) : t1prime_block_transceive(f)

SpecUndefinedR == Init /\ [][NextUndefinedR]_vars

\* a transport on which a receive either delivers a block with a valid CRC
\* or returns fewer bytes than requested
ShortReadFramesAt(caller, nCardI) ==
    CardFramesAt(caller, nCardI) \ {TimeoutFrame, BadCrcFrame}

NextShortReads ==
    \/ \E data \in Requests : t1prime_transceive(data)
    \/ t1prime_block_transmit
    \/ \E f \in ShortReadFramesAt(ret, hist.nCardI) : t1prime_block_transceive(f)
    \/ s_resynch

SpecShortReads == Init /\ [][NextShortReads]_vars

\* transceive with a card that answers every block with a CRC-valid block;
\* the host goes on with every transmission and every receive it has begun
ValidFramesAt(caller, nCardI) ==
    { f \in CardFramesAt(caller, nCardI) : FrameKind(f) = "block" }

ReceiveValid == \E f \in ValidFramesAt(ret, hist.nCardI) : t1prime_block_transceive(f)

NextAnswered ==
    \/ \E data \in Requests : t1prime_transceive(data)
    \/ t1prime_block_transmit
    \/ ReceiveValid

\* transceive with a card whose S(IFS request) blocks all carry a value outside
\* 1..T1PRIME_MAX_IFS in an information field of valid length
OutOfRangeIfsFramesAt(caller, nCardI) ==
    { f \in ValidFramesAt(caller, nCardI) : f.pcb # T1PRIME_PCB_S_IFS_REQ }
        \cup { Frame(T1PRIME_PCB_S_IFS_REQ, i) :
                 i \in { <<0>>, <<0, 0>>, <<15, 250>>, <<255, 255>> } }

NextOutOfRangeIfs ==
    \/ \E data \in Requests : t1prime_transceive(data)
    \/ t1prime_block_transmit
    \/ \E f \in OutOfRangeIfsFramesAt(ret, hist.nCardI) : t1prime_block_transceive(f)

SpecOutOfRangeIfs == Init /\ [][NextOutOfRangeIfs]_vars

SpecAnswered ==
    /\ Init /\ [][NextAnswered]_vars
    /\ WF_vars(t1prime_block_transmit)
    /\ WF_vars(ReceiveValid)

\* the session parameters: activation, the supervisory operations and the
\* setter of the block waiting time
NextSession ==
    \/ t1prime_block_transmit
    \/ \E f \in CardFramesAt(ret, hist.nCardI) : t1prime_block_transceive(f)
    \/ t1prime_activate
    \/ s_resynch
    \/ s_swr
    \/ \E bwt \in BwtValues : t1prime_set_bwt(bwt)
    \/ \E ifsd \in IfsdValues : t1prime_set_ifsd(ifsd)

SpecSession == Init /\ [][NextSession]_vars

(***************************************************************************)
(* The block codec on its own: a block is encoded and the bytes decoded,   *)
(* or bytes are decoded and the block encoded.  transmission_block holds   *)
(* the block given, frame.data the bytes given, response.bytes the output  *)
(* of t1prime_block_encode, bt.block and status those of                   *)
(* t1prime_block_decode.                                                   *)
(***************************************************************************)
CodecBytes == {0, 1, 255}

RECURSIVE InfosOfLen(_)
InfosOfLen(n) ==
    IF n = 0 THEN { <<>> }
    ELSE { Append(i, v) : i \in InfosOfLen(n - 1), v \in CodecBytes }

CodecInfos == UNION { InfosOfLen(n) : n \in 0..MaxInfoLen }

CodecBlocks ==
    { Block(nad, pcb, i) :
        nad \in {NAD_HD_TO_SE, NAD_SE_TO_HD},
        pcb \in {T1PRIME_PCB_I(0, FALSE), T1PRIME_PCB_I(1, TRUE), T1PRIME_PCB_R_ACK(0),
                 T1PRIME_PCB_R_CRC(1), T1PRIME_PCB_S_IFS_REQ, T1PRIME_PCB_S_WTX_RESP},
        i \in CodecInfos }

\* encoded blocks with their CRC, as the tests and the transport give them
CodecVectors ==
    { <<33, 128, 0, 0, 99, 218>>,
      <<33, 193, 0, 2, 1, 2, 185, 133>>,
      <<18, 0, 0, 1, 241, 146, 97>>,
      <<18, 225, 0, 2, 15, 249, 193, 245>>,
      <<18, 144, 0, 0, 143, 112>>,
      <<33, 96, 0, 3, 1, 2, 3, 137, 173>> }

\* the vectors, and the vectors with one byte changed, cut short or extended
CodecStrings ==
    CodecVectors
        \cup { SubSeq(x, 1, i - 1) \o <<v>> \o SubSeq(x, i + 1, Len(x)) :
                  x \in CodecVectors, i \in 1..6, v \in CodecBytes }
        \cup { SubSeq(x, 1, k) : x \in CodecVectors, k \in 0..5 }
        \cup { x \o <<v>> : x \in CodecVectors, v \in CodecBytes }
        \cup { <<33, 193, 0>>, <<33, 193, 0, 1, 255, 255>>,
               <<33, 193, 0, 1, 1, 2, 255, 255>>, <<33, 193, 0, 0, 255, 255>> }

InitCodec ==
    /\ protocol_state = t1prime_get_protocol_state
    /\ pc = "idle"
    /\ ret = "none"
    /\ response = NullResponse
    /\ status = SUCCESS
    /\ bt = NoBt
    /\ hist = NoHist
    /\ \/ /\ op = "encode_decode"
          /\ transmission_block \in CodecBlocks
          /\ frame = NoFrame
       \/ /\ op = "decode_encode"
          /\ transmission_block = NoBlock
          /\ frame \in { [NoFrame EXCEPT !.data = x] : x \in CodecStrings }

EncodeBlock ==
    /\ \/ op = "encode_decode" /\ pc = "idle"
          /\ response' = [null |-> FALSE,
                           bytes |-> t1prime_block_encode(transmission_block)]
          /\ pc' = "encoded"
       \/ op = "decode_encode" /\ pc = "decoded" /\ status = SUCCESS
          /\ response' = [null |-> FALSE, bytes |-> t1prime_block_encode(bt.block)]
          /\ pc' = "done"
    /\ UNCHANGED <<protocol_state, op, ret, frame, transmission_block, status, bt, hist>>

DecodeBlock ==
    /\ \/ op = "decode_encode" /\ pc = "idle"
          /\ LET d == t1prime_block_decode(frame.data)
             IN  /\ bt' = [bt EXCEPT !.block = d.block]
                 /\ status' = d.status
          /\ pc' = "decoded"
       \/ op = "encode_decode" /\ pc = "encoded"
          /\ LET d == t1prime_block_decode(response.bytes)
             IN  /\ bt' = [bt EXCEPT !.block = d.block]
                 /\ status' = d.status
          /\ pc' = "done"
    /\ UNCHANGED <<protocol_state, op, ret, frame, transmission_block, response, hist>>

NextCodec ==
    \/ EncodeBlock
    \/ DecodeBlock

SpecCodec == InitCodec /\ [][NextCodec]_vars

TypeOK ==
    /\ protocol_state.send_counter \in {0, 1}
    /\ protocol_state.receive_counter \in {0, 1}
    /\ pc \in {"idle", "transmit", "receive", "done", "encoded", "decoded"}

(***************************************************************************)
(* Properties                                                              *)
(***************************************************************************)
Returned == pc = "done" /\ op = "transceive"

SendPhase == op = "transceive" /\ ret = "send" /\ pc \in {"transmit", "receive"}

Clean == ~hist.sawIfsReq /\ ~hist.sawRetransmitReq

RECURSIVE Concat(_)
Concat(blocks) ==
    IF blocks = <<>> THEN <<>>
    ELSE blocks[1].information \o Concat(Tail(blocks))

CeilDiv(a, b) == (a + b - 1) \div b

\* C1: when transceive returns success, S has been toggled once for every
\* request chunk the card acknowledged and R once for every response I-block
\* the host accepted; a one-chunk request answered by one unchained I-block,
\* started with S = 0 and R = 0, ends with S = 1 and R = 1.
C1_CountersToggledOncePerAcknowledgement ==
    (Returned /\ status = SUCCESS) =>
        /\ protocol_state.send_counter = (hist.s0 + hist.ackedParity) % 2
        /\ protocol_state.receive_counter = (hist.r0 + hist.nCardI) % 2
        /\ (hist.s0 = 0 /\ hist.r0 = 0 /\ hist.reqLen <= hist.ifsc0 /\ hist.honest
               /\ hist.nCardI = 1)
              => (protocol_state.send_counter = 1 /\ protocol_state.receive_counter = 1)

C1_Witness ==
    /\ Returned /\ status = SUCCESS
    /\ hist.s0 = 0 /\ hist.r0 = 0 /\ hist.reqLen = 1 /\ hist.honest /\ hist.nCardI = 1
    /\ protocol_state.send_counter = 1 /\ protocol_state.receive_counter = 1
    /\ response.bytes = <<241>>

\* C2: whenever transceive returns success, the returned response is the
\* concatenation, in arrival order, of the information fields of every
\* response I-block the card sent with the expected N(S) during the call.
C2_ResponseIsConcatenationOfAcceptedIBlocks ==
    (Returned /\ status = SUCCESS) => response.bytes = hist.cardBytes

\* C3: while the card acknowledges every I-block and sends no S(IFS request),
\* the I-blocks sent carry consecutive chunks of the request of at most IFSC
\* bytes, M = 1 on every chunk but the last, N(S) alternating from the S of
\* the start of the call and equal to the current S, and the chunks
\* concatenated in send order are the request.
C3_ChunksCoverTheRequestInOrder ==
    (SendPhase /\ Clean) =>
        LET n == Len(hist.sentI)
            sent(i) == Len(Concat(SubSeq(hist.sentI, 1, i)))
        IN  /\ \A i \in 1..n :
                 /\ T1PRIME_PCB_IS_I(hist.sentI[i].pcb)
                 /\ Len(hist.sentI[i].information) <= hist.ifsc0
                 /\ T1PRIME_PCB_I_GET_NS(hist.sentI[i].pcb) = (hist.s0 + i - 1) % 2
                 /\ T1PRIME_PCB_I_HAS_MORE(hist.sentI[i].pcb) <=> sent(i) < Len(frame.data)
            /\ sent(n) <= Len(frame.data)
            /\ Concat(hist.sentI) = SubSeq(frame.data, 1, sent(n))
            /\ (n > 0 /\ pc = "receive") =>
                   T1PRIME_PCB_I_GET_NS(hist.sentI[n].pcb) = protocol_state.send_counter

C3_Witness ==
    /\ SendPhase /\ Clean /\ pc = "receive"
    /\ frame.data = <<1, 2, 3>>
    /\ hist.sentI = << [pcb |-> T1PRIME_PCB_I(hist.s0, TRUE), information |-> <<1, 2>>],
                       [pcb |-> T1PRIME_PCB_I(Xor1(hist.s0), FALSE), information |-> <<3>>] >>

\* C4: when the send phase completes without S(IFS request) and without
\* retransmissions, the number of I-blocks sent is ceil(|request| / IFSC),
\* IFSC being the session value at the start of the call.
C4_NumberOfIBlocksSent ==
    (SendPhase /\ Clean /\ hist.ifsc0 > 0 /\ hist.sentI # <<>>) =>
        /\ Len(hist.sentI) <= CeilDiv(hist.reqLen, hist.ifsc0)
        /\ ~T1PRIME_PCB_I_HAS_MORE(hist.sentI[Len(hist.sentI)].pcb)
              => Len(hist.sentI) = CeilDiv(hist.reqLen, hist.ifsc0)

C4_Witness ==
    /\ SendPhase /\ Clean /\ pc = "receive"
    /\ hist.reqLen = 3 /\ hist.ifsc0 = 2
    /\ Len(hist.sentI) = 2
    /\ ~T1PRIME_PCB_I_HAS_MORE(hist.sentI[2].pcb)
    /\ ~hist.outstanding

\* C5: one block exchange transmits at most 3 blocks, the original block and
\* at most 2 retry blocks, whatever the card answers or fails to answer.
C5_AtMostThreeTransmissionsPerExchange == hist.txCount <= 3

C5_Witness == pc = "done" /\ hist.txCount = 3 /\ hist.exhausted

\* C6: within one block exchange every retry transmission is
\* R(crc_error, N(R) = R) with R the current receive counter, except when the
\* original block was a request S-block: then it is that S-block unchanged.
C6_RetryBlocks ==
    (pc = "receive" /\ hist.txCount >= 2) =>
        hist.lastTx =
            IF T1PRIME_PCB_IS_S(bt.block.pcb) /\ T1PRIME_PCB_S_IS_REQUEST(bt.block.pcb)
            THEN bt.block
            ELSE Block(NAD_HD_TO_SE, T1PRIME_PCB_R(protocol_state.receive_counter, 1), <<>>)

C6_Witness ==
    /\ pc = "receive" /\ hist.txCount = 3
    /\ T1PRIME_PCB_IS_I(bt.block.pcb)
    /\ hist.lastTx = Block(NAD_HD_TO_SE, T1PRIME_PCB_R_CRC(protocol_state.receive_counter), <<>>)
    /\ protocol_state.receive_counter = 1

C6_WitnessSRequest ==
    /\ pc = "receive" /\ hist.txCount = 3
    /\ bt.block.pcb = T1PRIME_PCB_S_RESYNCH_REQ
    /\ hist.lastTx = bt.block

C8_BoundedCrcErrorsAreRecovered ==
    (Returned /\ hist.reqLen > 0 /\ hist.honest) =>
        /\ status = SUCCESS
        /\ ~response.null
        /\ response.bytes = hist.cardBytes

C8_Witness ==
    /\ Returned /\ hist.honest /\ status = SUCCESS
    /\ hist.txCount = 3 /\ hist.onlyBadCrc
    /\ hist.nCardI = 2
    /\ response.bytes = <<241, 242>>

\* C9: after S(ABORT request) in the send phase the next block the host
\* transmits is S(ABORT response) and the call returns TransceiveAborted,
\* whatever the card produces after the abort response.
C9_AbortInSendPhase ==
    (op = "transceive" /\ hist.abortAt = "send") =>
        /\ hist.txAfterAbort # <<>> =>
              hist.txAfterAbort[1] = Block(NAD_HD_TO_SE, T1PRIME_PCB_S_ABORT_RESP, <<>>)
        /\ pc = "done" =>
              status = IFX_ERROR(LIBT1PRIME, PROTOCOL_TRANSCEIVE, TRANSCEIVE_ABORTED)

\* the part of C9 the code keeps: the block after the abort request
C9_AbortResponseIsSent ==
    (op = "transceive" /\ hist.abortAt = "send" /\ hist.txAfterAbort # <<>>) =>
        hist.txAfterAbort[1] = Block(NAD_HD_TO_SE, T1PRIME_PCB_S_ABORT_RESP, <<>>)

\* C10: after S(ABORT request) in the receive phase the host discards what it
\* accumulated, transmits S(ABORT response), and the call returns
\* TransceiveAborted with no response bytes.
C10_AbortInReceivePhase ==
    (op = "transceive" /\ hist.abortAt = "recv") =>
        /\ response = NullResponse
        /\ hist.txAfterAbort # <<>> =>
              hist.txAfterAbort[1] = Block(NAD_HD_TO_SE, T1PRIME_PCB_S_ABORT_RESP, <<>>)
        /\ pc = "done" =>
              /\ hist.txAfterAbort # <<>>
              /\ status = IFX_ERROR(LIBT1PRIME, PROTOCOL_TRANSCEIVE, TRANSCEIVE_ABORTED)

C10_Witness ==
    /\ Returned /\ hist.abortAt = "recv"
    /\ hist.cardBytes = <<241>>
    /\ response.null
    /\ status = IFX_ERROR(LIBT1PRIME, PROTOCOL_TRANSCEIVE, TRANSCEIVE_ABORTED)

\* C11: when the card answers the first I-block of a chained request (M = 1)
\* with S(ABORT request) and the call ends with TransceiveAborted, S and R
\* have the values they had before the call.
C11_AbortOfFirstChunkKeepsCounters ==
    (Returned /\ hist.abortFirstChained
        /\ status = IFX_ERROR(LIBT1PRIME, PROTOCOL_TRANSCEIVE, TRANSCEIVE_ABORTED)) =>
        /\ protocol_state.send_counter = hist.s0
        /\ protocol_state.receive_counter = hist.r0

C11_Witness ==
    /\ Returned /\ hist.abortFirstChained /\ hist.abortAt = "send"
    /\ status = IFX_ERROR(LIBT1PRIME, PROTOCOL_TRANSCEIVE, TRANSCEIVE_ABORTED)
    /\ hist.reqLen = 3 /\ hist.ifsc0 = 2
    /\ protocol_state.send_counter = hist.s0

\* C12: after the host has answered a send-phase S(IFS request) carrying a
\* valid value v with S(IFS response), the session IFSC equals v.
C12_IfsRequestSetsIfsc ==
    (op = "transceive" /\ hist.ifsAnswered # -1) =>
        protocol_state.ifsc = hist.ifsAnswered

\* C13: after the host has answered a send-phase S(IFS request) carrying v
\* smaller than the current chunk size, every I-block the host sends during
\* the rest of the call carries at most v information bytes.
C13_ChunksAfterShrinkingIfs ==
    (SendPhase /\ pc = "receive" /\ hist.ifsShrink # -1
        /\ T1PRIME_PCB_IS_I(hist.lastTx.pcb)) =>
        Len(hist.lastTx.information) <= hist.ifsShrink

\* the part of C13 the code keeps: the chunk that was out when the request
\* came is sent again with at most v bytes
C13_ResentChunkIsClamped ==
    (SendPhase /\ pc = "receive" /\ hist.ifsShrink # -1
        /\ T1PRIME_PCB_IS_I(hist.lastTx.pcb)
        /\ frame.offset = 0) =>
        Len(hist.lastTx.information) <= hist.ifsShrink

\* C14: when the card sends S(WTX request) with multiplier byte m during the
\* send phase, the host records m * BWT as the pending delay, the next block
\* it transmits is S(WTX response) with information byte m, S and R are
\* unchanged by the exchange, and an I-block the card sends afterwards is
\* delivered as the response.
C14_WtxRequestInSendPhase ==
    /\ (op = "transceive" /\ hist.wtxM # -1) =>
          /\ SendPhase
          /\ bt.block = Block(NAD_HD_TO_SE, T1PRIME_PCB_S_WTX_RESP, <<hist.wtxM>>)
          /\ pc = "transmit" =>
                /\ bt.to_send = bt.block
                /\ protocol_state.wtx_delay = hist.wtxM * protocol_state.bwt
          /\ pc = "receive" => hist.lastTx = bt.block
          /\ protocol_state.send_counter = hist.wtxS
          /\ protocol_state.receive_counter = hist.wtxR
    /\ (Returned /\ hist.wtxThenI) =>
          /\ status = SUCCESS
          /\ ~response.null
          /\ response.bytes = hist.cardBytes

C14_Witness ==
    /\ Returned /\ hist.wtxThenI
    /\ status = SUCCESS
    /\ response.bytes = <<241>>
    /\ hist.nCardI = 1

C14_WitnessDelay ==
    /\ SendPhase /\ pc = "transmit" /\ hist.wtxM = 2
    /\ protocol_state.bwt = 300
    /\ protocol_state.wtx_delay = 600

Activated == op = "activate" /\ pc = "done" /\ status = SUCCESS

\* a CIP of an I2C card with the given DLLP fields and historical bytes
I2cCip(bwt, ifsc, hb) ==
    MkCip(<<0, 0, 0>>, PLID_I2C, I2cPlp(T1PRIME_DEFAULT_I2C_MPOT), Dllp(bwt, ifsc), hb)

\* C15: after activate returns success, whatever the session state was
\* before the call, BWT equals the bwt field and IFSC the ifsc field of the
\* DLLP in the card's CIP response, and S = 0 and R = 0.
C15_ActivateAppliesDllp ==
    Activated =>
        /\ \E b \in {0, 128}, i \in {2, 65535}, hb \in {<<>>, <<7>>} :
              /\ hist.cipInfo = I2cCip(b, i, hb)
              /\ protocol_state.bwt = b
              /\ protocol_state.ifsc = i
        /\ protocol_state.send_counter = 0
        /\ protocol_state.receive_counter = 0

C15_Witness ==
    /\ Activated
    /\ hist.cipInfo = I2cCip(128, 2, <<7>>)
    /\ protocol_state.bwt = 128 /\ protocol_state.ifsc = 2
    /\ hist.s0 = 1 /\ hist.r0 = 1 /\ hist.ifsc0 = 65535
    /\ protocol_state.send_counter = 0 /\ protocol_state.receive_counter = 0

\* C16: during activate the host transmits only S(CIP request) blocks
\* followed by S(RESYNCH request) blocks: no S(RESYNCH request) before a
\* valid S(CIP response) has been received and parsed, no I-block, and no
\* response bytes for the caller.
C16_ActivateTransmissions ==
    op = "activate" =>
        /\ response = NullResponse
        /\ pc = "receive" =>
              /\ \/ hist.lastTx = Block(NAD_HD_TO_SE, T1PRIME_PCB_S_CIP_REQ, <<>>)
                 \/ hist.lastTx = Block(NAD_HD_TO_SE, T1PRIME_PCB_S_RESYNCH_REQ, <<>>)
              /\ hist.lastTx.pcb = T1PRIME_PCB_S_RESYNCH_REQ => hist.cipParsed
              /\ hist.lastTx.pcb = T1PRIME_PCB_S_CIP_REQ => ~hist.sawResynchTx

C16_Witness ==
    /\ op = "activate" /\ pc = "receive" /\ hist.txCount = 3
    /\ hist.lastTx = Block(NAD_HD_TO_SE, T1PRIME_PCB_S_RESYNCH_REQ, <<>>)
    /\ hist.cipParsed /\ hist.cipInfo = I2cCip(128, 2, <<7>>)

\* C17: in every state reachable after a successful activation (including
\* after any later set_bwt call), the session BWT is strictly positive:
\* stated for the state in which activate has returned success and for the
\* state a set_bwt call made in that state leaves.
C17_BwtPositiveAfterActivation ==
    [][(Activated' \/ (Activated /\ op' = "set_bwt")) => protocol_state'.bwt > 0]_vars

\* C18: in every reachable state of the engine the session IFSC is at most
\* 0xFF9.
C18_IfscAtMostMaxIfs ==
    protocol_state.ifsc <= T1PRIME_MAX_IFS

\* C19: the session state a freshly constructed engine starts with (before
\* any activation) has IFSC = 8 and BWT = 300 ms.
C19_FreshSessionDefaults ==
    (pc = "idle" /\ op = "none") =>
        /\ protocol_state.ifsc = T1PRIME_DEFAULT_IFSC
        /\ protocol_state.bwt = T1PRIME_DEFAULT_BWT

\* C20: resynch and soft reset each set S = 0 and R = 0 when the card's
\* matching S response is received within the retry budget, and leave S and
\* R at their previous values when the exchange fails.
C20_ResynchAndSoftReset ==
    (op \in {"resynch", "swr"} /\ pc = "done") =>
        /\ hist.matched <=> status = SUCCESS
        /\ status = SUCCESS =>
              /\ protocol_state.send_counter = 0
              /\ protocol_state.receive_counter = 0
        /\ status # SUCCESS =>
              /\ protocol_state.send_counter = hist.s0
              /\ protocol_state.receive_counter = hist.r0

C20_Witness ==
    /\ op = "swr" /\ pc = "done" /\ status = SUCCESS /\ hist.matched
    /\ hist.txCount = 3
    /\ hist.s0 = 1 /\ hist.r0 = 1
    /\ protocol_state.send_counter = 0 /\ protocol_state.receive_counter = 0

C20_WitnessFailure ==
    /\ op = "resynch" /\ pc = "done" /\ hist.exhausted
    /\ status = IFX_ERROR(LIBT1PRIME, PROTOCOL_TRANSCEIVE, INVALID_BLOCK)
    /\ hist.s0 = 1 /\ hist.r0 = 1
    /\ protocol_state.send_counter = 1 /\ protocol_state.receive_counter = 1

\* the value an IFS information field stands for: one byte, or two bytes
\* with the most significant byte first
IfsValue(information) ==
    IF Len(information) = 1 THEN information[1]
    ELSE information[1] * 256 + information[2]

\* C21: set_ifsd(n) with n in [1, 0xFF9] returns success exactly when the
\* block obtained from the exchange is an S(IFS response) whose information
\* field decodes to n; a block of any other type, an information field of
\* length 0 or more than 2, or a different value makes it return
\* InvalidBlock.
C21_SetIfsdResult ==
    (op = "set_ifsd" /\ pc = "done" /\ hist.ifsd \in 1..T1PRIME_MAX_IFS
        /\ hist.rxBlock # NoBlock) =>
        LET b == hist.rxBlock
            answers == /\ b.pcb = T1PRIME_PCB_S_IFS_RESP
                       /\ Len(b.information) \in {1, 2}
                       /\ IfsValue(b.information) = hist.ifsd
        IN  /\ status = SUCCESS <=> answers
            /\ ~answers =>
                  /\ ifx_is_error(status)
                  /\ ifx_error_get_reason(status) = INVALID_BLOCK

C21_Witness ==
    /\ op = "set_ifsd" /\ pc = "done" /\ status = SUCCESS
    /\ hist.ifsd = 258
    /\ hist.rxBlock = Block(NAD_SE_TO_HD, T1PRIME_PCB_S_IFS_RESP, <<1, 2>>)

C21_WitnessMismatch ==
    /\ op = "set_ifsd" /\ pc = "done"
    /\ status = IFX_ERROR(LIBT1PRIME, PROTOCOL_RECEIVE, INVALID_BLOCK)
    /\ hist.ifsd = 1
    /\ hist.rxBlock = Block(NAD_SE_TO_HD, T1PRIME_PCB_S_IFS_RESP, <<2>>)

C21_WitnessOtherBlock ==
    /\ op = "set_ifsd" /\ pc = "done" /\ hist.exhausted
    /\ status = IFX_ERROR(LIBT1PRIME, PROTOCOL_TRANSCEIVE, INVALID_BLOCK)
    /\ hist.ifsd = 1
    /\ hist.rxBlock = Block(NAD_SE_TO_HD, T1PRIME_PCB_S_SWR_RESP, <<>>)

\* S, R, IFSC and BWT are what they were when the operation was called
SessionAsBeforeCall ==
    /\ protocol_state.send_counter = hist.s0
    /\ protocol_state.receive_counter = hist.r0
    /\ protocol_state.ifsc = hist.ifsc0
    /\ protocol_state.bwt = hist.bwt0

\* C22: transceive called with a zero-length request, and set_ifsd called
\* with a value outside [1, 0xFF9], return IllegalArgument without
\* transmitting any block and without changing S, R, IFSC or BWT.
C22_IllegalArgument ==
    (pc = "done" /\ \/ op = "transceive" /\ hist.reqLen = 0
                    \/ op = "set_ifsd" /\ hist.ifsd \notin 1..T1PRIME_MAX_IFS) =>
        /\ ifx_is_error(status)
        /\ ifx_error_get_reason(status) = ILLEGAL_ARGUMENT
        /\ hist.txCount = 0
        /\ SessionAsBeforeCall

C22_Witness ==
    /\ op = "set_ifsd" /\ pc = "done" /\ hist.ifsd = T1PRIME_MAX_IFS + 1
    /\ status = IFX_ERROR(LIBT1PRIME, PROTOCOL_SETPROPERTY, ILLEGAL_ARGUMENT)
    /\ hist.txCount = 0
    /\ hist.s0 = 1 /\ protocol_state.send_counter = 1

C22_WitnessTransceive ==
    /\ op = "transceive" /\ pc = "done" /\ hist.reqLen = 0
    /\ status = IFX_ERROR(LIBT1PRIME, PROTOCOL_TRANSCEIVE, ILLEGAL_ARGUMENT)
    /\ hist.txCount = 0
    /\ hist.r0 = 1 /\ protocol_state.receive_counter = 1

\* transceive has returned TooLittleData because the last read of its last
\* block exchange saw no block within BWT
TimedOut ==
    /\ Returned
    /\ status = IFX_ERROR(LIBT1PRIME, PROTOCOL_RECEIVE, TOO_LITTLE_DATA)
    /\ hist.exhausted /\ hist.lastRx = "nothing"

C23_WitnessLaterChunk ==
    /\ TimedOut
    /\ protocol_state.send_counter # hist.s0
    /\ protocol_state.receive_counter = hist.r0
    /\ hist.nCardI = 0

\* C24: S and R change only when an I-block sent by the host is
\* acknowledged, when an I-block from the card is accepted, or when
\* RESYNCH/SWR succeeds: retransmitting an I-block on R(N(R) = S), re-sending
\* R(ack), sending R(crc_error) retries, and answering S(WTX), S(IFS) or
\* S(ABORT) requests leave both counters unchanged.
C24_CountersChangeOnlyOnAcknowledgement ==
    [][LET S == protocol_state.send_counter
           R == protocol_state.receive_counter
           reset == /\ ret \in {"resynch", "swr"} /\ pc = "receive" /\ pc' = "done"
                    /\ status' = SUCCESS
                    /\ protocol_state'.send_counter = 0
                    /\ protocol_state'.receive_counter = 0
           read == op = "transceive" /\ pc = "receive"
           acknowledged == /\ read /\ ret = "send"
                           /\ hist'.rxKind \in {"R_next", "I_expected", "I_other"}
           accepted == read /\ hist'.rxKind = "I_expected"
           interjection ==
               \/ read /\ ret = "send"
                       /\ hist'.rxKind \in {"R_same", "S_wtx", "S_ifs", "S_abort"}
               \/ read /\ ret = "recv" /\ hist'.rxKind \in {"R_same", "R_next", "S_abort"}
               \/ pc = "receive" /\ pc' = "transmit" /\ bt'.try > 0
               \/ pc = "transmit"
       IN  /\ protocol_state'.send_counter # S => (acknowledged \/ reset)
           /\ protocol_state'.receive_counter # R => (accepted \/ reset)
           /\ interjection => /\ protocol_state'.send_counter = S
                              /\ protocol_state'.receive_counter = R]_vars

\* reached states in which the exchanges the claim lists have happened and
\* the counters have moved for the acknowledged blocks only
C24_Witness ==
    /\ op = "transceive" /\ pc = "transmit" /\ ret = "send"
    /\ hist.rxKind = "R_same" /\ hist.sawRetransmitReq
    /\ T1PRIME_PCB_IS_I(bt.to_send.pcb)
    /\ protocol_state.send_counter # hist.s0

C24_WitnessAbort ==
    /\ op = "transceive" /\ pc = "transmit" /\ ret = "send"
    /\ hist.rxKind = "S_abort"
    /\ bt.to_send.pcb = T1PRIME_PCB_S_ABORT_RESP
    /\ protocol_state.send_counter = hist.s0

\* C25: on the bus, host transmissions and block-receive attempts strictly
\* alternate: the host never transmits two blocks without one receive
\* attempt in between, never performs two receive attempts without a
\* transmission in between, and never attempts a receive before its first
\* transmission of an operation.
C25_TransmitAndReceiveAlternate ==
    /\ hist.alternates
    /\ pc = "receive" => hist.bus = "tx"
    /\ (pc = "transmit" /\ hist.bus # "none") => hist.bus = "rx"

C25_Witness ==
    /\ Returned /\ status = SUCCESS
    /\ hist.alternates /\ hist.bus = "rx"
    /\ hist.nCardI = 2 /\ hist.reqLen = 2
    /\ protocol_state.receive_counter = hist.r0

\* the host has put the S(IFS request) of set_ifsd(n) on the wire
IfsRequestSent ==
    /\ op = "set_ifsd" /\ pc = "receive"
    /\ hist.lastTx.pcb = T1PRIME_PCB_S_IFS_REQ

\* C26: the IFS value n in [1, 0xFF9] is put on the wire as 1 byte when
\* n <= 0xFE and otherwise as 3 bytes 0x00, MSB, LSB.
C26_IfsOnTheWireThreeBytes ==
    IfsRequestSent =>
        hist.lastTx.information =
            IF hist.ifsd <= 254 THEN <<hist.ifsd>>
            ELSE <<0, hist.ifsd \div 256, hist.ifsd % 256>>

\* C26 (amended): the IFS value n in [1, 0xFF9] is put on the wire as 1 byte
\* when n <= 0xFE and otherwise as 2 bytes MSB, LSB, and the decoder reads
\* that field back as n.
C26_IfsOnTheWireTwoBytes ==
    IfsRequestSent =>
        /\ hist.ifsd \in 1..T1PRIME_MAX_IFS
        /\ hist.lastTx.information =
               IF hist.ifsd <= 254 THEN <<hist.ifsd>>
               ELSE <<hist.ifsd \div 256, hist.ifsd % 256>>
        /\ t1prime_ifs_decode(hist.lastTx.information)
               = [status |-> SUCCESS, ifs |-> hist.ifsd]

C26_Witness ==
    /\ IfsRequestSent
    /\ hist.ifsd = T1PRIME_MAX_IFS
    /\ hist.lastTx.information = <<15, 249>>

C26_WitnessOneByte ==
    /\ IfsRequestSent
    /\ hist.ifsd = 1
    /\ hist.lastTx.information = <<1>>

\* C27: block encoding and decoding are mutually inverse:
\* decode(encode(b)) = b for every well-formed block b, and
\* encode(decode(x)) = x for every byte string x on which decode succeeds.
C27_EncodeDecodeInverse ==
    /\ (op = "encode_decode" /\ pc = "done") =>
          /\ status = SUCCESS
          /\ bt.block = transmission_block
    /\ (op = "decode_encode" /\ pc = "done") =>
          response.bytes = frame.data

C27_Witness ==
    /\ op = "encode_decode" /\ pc = "done"
    /\ transmission_block = Block(NAD_HD_TO_SE, T1PRIME_PCB_S_IFS_REQ, <<1, 255>>)
    /\ response.bytes[1] = NAD_HD_TO_SE /\ Len(response.bytes) = 8
    /\ bt.block = transmission_block

C27_WitnessDecodeEncode ==
    /\ op = "decode_encode" /\ pc = "done"
    /\ frame.data = <<18, 225, 0, 2, 15, 249, 193, 245>>
    /\ bt.block = Block(NAD_SE_TO_HD, T1PRIME_PCB_S_IFS_RESP, <<15, 249>>)
    /\ response.bytes = frame.data

\* the encoder and the decoder on the vectors of the tests
C27_TestVectors ==
    /\ crc16_ccitt_x25(<<1, 2, 3, 4>>) = 14737
    /\ crc16_ccitt_x25(<<>>) = 0
    /\ t1prime_block_encode(Block(33, 128, <<>>)) = <<33, 128, 0, 0, 99, 218>>
    /\ t1prime_block_encode(Block(33, 193, <<1, 2>>)) = <<33, 193, 0, 2, 1, 2, 185, 133>>
    /\ ifx_error_get_reason(t1prime_block_decode(<<33, 193, 0>>).status) = TOO_LITTLE_DATA
    /\ ifx_error_get_reason(t1prime_block_decode(<<33, 193, 0, 1, 255, 255>>).status)
          = INFORMATIONSIZE_MISMATCH
    /\ ifx_error_get_reason(t1prime_block_decode(<<33, 193, 0, 0, 255, 255>>).status)
          = INVALID_CRC

\* C28: in the send phase, every R-block received with N(R) = S XOR 1 in
\* answer to an I-block (of a request the card has not aborted) advances S
\* to S XOR 1, also when the chunk it acknowledges was the last chunk of the
\* request; after that last acknowledgement the engine is in the receive
\* direction.
C28_AcknowledgementAdvancesS ==
    [][(/\ SendPhase /\ pc = "receive"
        /\ T1PRIME_PCB_IS_I(bt.block.pcb) /\ ~frame.aborted
        /\ hist'.rxKind = "R_next") =>
           /\ protocol_state'.send_counter = Xor1(protocol_state.send_counter)
           /\ (frame.remaining - frame.last_information_size = 0) => ret' = "recv"]_vars

\* the acknowledgement of a chunk that is not the last one advances S
C28_AcknowledgementOfChainedChunkAdvancesS ==
    [][(/\ SendPhase /\ pc = "receive"
        /\ T1PRIME_PCB_IS_I(bt.block.pcb) /\ ~frame.aborted
        /\ hist'.rxKind = "R_next"
        /\ frame.remaining - frame.last_information_size > 0) =>
           protocol_state'.send_counter = Xor1(protocol_state.send_counter)]_vars

\* the last chunk was acknowledged by R(N(R) = S XOR 1), the card then kept
\* silent: transceive has returned and S is as before the call
C28_LastChunkAcknowledgedAndSUnchanged ==
    /\ TimedOut
    /\ hist.reqLen = 1
    /\ ret = "none"
    /\ hist.nCardI = 0
    /\ hist.ackedParity = 1
    /\ protocol_state.send_counter = hist.s0

\* C29: in the send phase, when the card answers with an R-block whose N(R)
\* equals S, the next block the host transmits is the I-block it sent last,
\* with the same N(S), the same M bit and the same information bytes, and S
\* is unchanged.
C29_RetransmissionIsLastIBlock ==
    [][(SendPhase /\ pc = "receive" /\ hist'.rxKind = "R_same") =>
           /\ pc' = "transmit" /\ bt'.try = 0
           /\ bt'.to_send = Block(NAD_HD_TO_SE, hist.lastI, hist.lastIInfo)
           /\ protocol_state'.send_counter = protocol_state.send_counter]_vars

\* C29 (amended): the next block the host transmits is an I-block with the
\* N(S) of the I-block it sent last and S is unchanged; it is that I-block,
\* M bit and information bytes included, unless the host has answered an
\* S(IFS request) with a value v smaller than the block's information since
\* it sent the block: then it carries the first v bytes and M = 1.
C29_RetransmissionIsLastIBlockOrItsPrefix ==
    [][(SendPhase /\ pc = "receive" /\ hist'.rxKind = "R_same") =>
           /\ pc' = "transmit" /\ bt'.try = 0
           /\ protocol_state'.send_counter = protocol_state.send_counter
           /\ bt'.to_send.nad = NAD_HD_TO_SE
           /\ T1PRIME_PCB_IS_I(bt'.to_send.pcb)
           /\ T1PRIME_PCB_I_GET_NS(bt'.to_send.pcb) = T1PRIME_PCB_I_GET_NS(hist.lastI)
           /\ T1PRIME_PCB_I_GET_NS(bt'.to_send.pcb) = protocol_state.send_counter
           /\ IF hist.shrunk
              THEN /\ hist.ifsShrink < Len(hist.lastIInfo)
                   /\ bt'.to_send.information = SubSeq(hist.lastIInfo, 1, hist.ifsShrink)
                   /\ T1PRIME_PCB_I_HAS_MORE(bt'.to_send.pcb)
              ELSE bt'.to_send = Block(NAD_HD_TO_SE, hist.lastI, hist.lastIInfo)]_vars

\* the last I-block is about to be sent again as it was
C29_Witness ==
    /\ SendPhase /\ pc = "transmit" /\ bt.try = 0
    /\ hist.rxKind = "R_same" /\ ~hist.shrunk
    /\ hist.lastIInfo = <<1, 2>>
    /\ bt.to_send = Block(NAD_HD_TO_SE, hist.lastI, hist.lastIInfo)
    /\ protocol_state.send_counter = T1PRIME_PCB_I_GET_NS(hist.lastI)

\* a shorter I-block is about to be sent after an S(IFS request)
C29_WitnessShrunk ==
    /\ SendPhase /\ pc = "transmit" /\ bt.try = 0
    /\ hist.rxKind = "R_same" /\ hist.shrunk
    /\ ~T1PRIME_PCB_I_HAS_MORE(hist.lastI)
    /\ T1PRIME_PCB_I_HAS_MORE(bt.to_send.pcb)
    /\ Len(bt.to_send.information) < Len(hist.lastIInfo)

\* C30: in the receive phase, when the card sends an R-block whose N(R)
\* equals S, the host answers by sending R(ack, N(R) = R) again, keeps the
\* bytes accumulated so far, and leaves S and R unchanged.
C30_RBlockInReceivePhase ==
    [][(op = "transceive" /\ ret = "recv" /\ pc = "receive"
          /\ hist'.rxKind = "R_same") =>
           /\ pc' = "transmit" /\ ret' = "recv" /\ bt'.try = 0
           /\ bt'.to_send = Block(NAD_HD_TO_SE,
                                  T1PRIME_PCB_R_ACK(protocol_state.receive_counter), <<>>)
           /\ bt'.to_send = bt.block
           /\ response' = response
           /\ protocol_state'.send_counter = protocol_state.send_counter
           /\ protocol_state'.receive_counter = protocol_state.receive_counter]_vars

\* R(ack) is about to be sent again and the bytes of the first I-block are kept
C30_Witness ==
    /\ op = "transceive" /\ ret = "recv" /\ pc = "transmit" /\ bt.try = 0
    /\ hist.rxKind = "R_same"
    /\ hist.nCardI = 1
    /\ ~response.null /\ response.bytes = hist.cardBytes /\ response.bytes # <<>>
    /\ bt.to_send.pcb = T1PRIME_PCB_R_ACK(protocol_state.receive_counter)

\* C31: in the receive phase, an R-block from the card whose N(R) differs
\* from S is a protocol error: the transceive call does not return success
\* after having received such a block, and never returns a partial response
\* as a success.
C31_WrongRBlockInReceivePhase ==
    (Returned /\ hist.wrongNr) => status # SUCCESS

\* a call that was given such an R-block and went on to return without an
\* error, with the bytes received before the R-block missing
C31_WrongRBlockThenSuccess ==
    /\ Returned /\ hist.wrongNr /\ status = SUCCESS
    /\ hist.nCardI = 2
    /\ Len(response.bytes) < Len(hist.cardBytes)

\* the step reads a CRC-valid I-block with N(S) = R and no information in
\* the receive phase (the observer's record of the card's bytes is as before)
ZeroLengthIBlock ==
    /\ op = "transceive" /\ ret = "recv" /\ pc = "receive"
    /\ hist'.rxKind = "I_expected"
    /\ hist'.cardBytes = hist.cardBytes

\* C32: in the receive phase, a zero-length I-block with N(S) = R that
\* arrives after some response bytes have been accumulated is accepted as a
\* forced acknowledgement: R toggles, the accumulated bytes are unchanged,
\* and the chain goes on or ends according to its M bit.
C32_ForcedAcknowledgement ==
    [][(ZeroLengthIBlock /\ ~response.null) =>
           /\ protocol_state'.receive_counter = Xor1(protocol_state.receive_counter)
           /\ protocol_state'.send_counter = protocol_state.send_counter
           /\ response' = response
           /\ IF hist'.rxMore
              THEN /\ pc' = "transmit" /\ ret' = "recv" /\ bt'.try = 0
                   /\ bt'.to_send =
                          Block(NAD_HD_TO_SE,
                                T1PRIME_PCB_R_ACK(protocol_state'.receive_counter), <<>>)
              ELSE pc' = "done" /\ status' = SUCCESS]_vars

\* the chain has ended with a zero-length I-block after one with a byte
C32_Witness ==
    /\ Returned /\ status = SUCCESS
    /\ hist.rxKind = "I_expected" /\ ~hist.rxMore
    /\ hist.nCardI = 2
    /\ response.bytes = hist.cardBytes /\ Len(response.bytes) = 1

\* the chain goes on after a zero-length I-block with M = 1
C32_WitnessChained ==
    /\ op = "transceive" /\ ret = "recv" /\ pc = "transmit"
    /\ hist.rxKind = "I_expected" /\ hist.rxMore
    /\ hist.nCardI = 2 /\ Len(hist.cardBytes) = 1
    /\ Len(response.bytes) = 1

\* the step reads, as the first block of the response or with an empty
\* accumulator later on, a CRC-valid I-block with N(S) = R and no information
ZeroLengthIBlockOnEmptyAccumulator ==
    /\ op = "transceive" /\ pc = "receive"
    /\ \/ ret = "recv"
       \/ ret = "send" /\ frame.remaining - frame.last_information_size = 0
    /\ hist'.rxKind = "I_expected"
    /\ hist'.cardBytes = hist.cardBytes
    /\ response.null

\* C33: in the receive phase, a zero-length I-block with N(S) = R is
\* accepted while the accumulator is still empty (that is, also as the first
\* response block of a chain): R toggles, the accumulator stays empty, and
\* the call does not fail because of it.
C33_ZeroLengthIBlockOnEmptyAccumulator ==
    [][ZeroLengthIBlockOnEmptyAccumulator =>
           /\ protocol_state'.receive_counter = Xor1(protocol_state.receive_counter)
           /\ response'.bytes = <<>>
           /\ IF hist'.rxMore
              THEN pc' = "transmit" /\ ret' = "recv"
              ELSE pc' = "done" /\ status' = SUCCESS]_vars

\* the call has ended with InvalidBlock on a zero-length first I-block
C33_ZeroLengthFirstIBlockRejected ==
    /\ Returned
    /\ status = IFX_ERROR(LIBT1PRIME, PROTOCOL_TRANSCEIVE, INVALID_BLOCK)
    /\ hist.rxKind = "I_expected" /\ hist.cardBytes = <<>> /\ hist.nCardI = 1
    /\ protocol_state.receive_counter = hist.r0

\* C34: a received R-block or S-block whose PCB low-nibble value is not one
\* of the defined ones is treated as an invalid block: the engine never acts
\* on it as an acknowledgement, a retransmission request or a supervisory
\* request.  (Stated for a card all of whose R-blocks have an undefined low
\* nibble and for the S-blocks that are no request of the card: transceive
\* returns InvalidBlock on reading one in its send or receive phase and
\* keeps S and R.)
C34_UndefinedPcbIsInvalidBlock ==
    [][(op = "transceive" /\ pc = "receive" /\ ret \in {"send", "recv"}
          /\ hist'.rxKind \in {"R_same", "R_next", "other"}) =>
           /\ pc' = "done"
           /\ status' = IFX_ERROR(LIBT1PRIME, PROTOCOL_TRANSCEIVE, INVALID_BLOCK)
           /\ protocol_state' = protocol_state]_vars

\* the part that holds: S-blocks that are not S(WTX), S(IFS) or S(ABORT)
\* requests end the call with InvalidBlock
C34_UndefinedSBlockIsInvalidBlock ==
    [][(op = "transceive" /\ pc = "receive" /\ ret \in {"send", "recv"}
          /\ hist'.rxKind = "other") =>
           /\ pc' = "done"
           /\ status' = IFX_ERROR(LIBT1PRIME, PROTOCOL_TRANSCEIVE, INVALID_BLOCK)
           /\ protocol_state' = protocol_state]_vars

\* an R-block with low nibble 3 has been taken as the acknowledgement of a
\* chunk: S has advanced and the next chunk is about to be sent
C34_UndefinedRBlockAcknowledges ==
    /\ SendPhase /\ pc = "transmit" /\ bt.try = 0
    /\ hist.rxKind = "R_next"
    /\ T1PRIME_PCB_IS_I(bt.to_send.pcb)
    /\ protocol_state.send_counter # hist.s0

\* the step reads a CRC-valid block in an exchange whose original block is a
\* request S-block
SRequestAnswered ==
    /\ pc = "receive" /\ op # "transceive"
    /\ IsSRequest(bt.block.pcb)
    /\ hist'.rxBlock # NoBlock

\* C35: in a block exchange whose original block is a request S-block, a
\* CRC-valid reply that is an S-block of another type or an R-block with
\* N(R) = S makes the host re-send the same S request while attempts remain,
\* whereas a reply that is an I-block or an R-block with N(R) different from
\* S ends the exchange at once with InvalidBlock without any further
\* transmission.
C35_RepliesToSRequest ==
    [][SRequestAnswered =>
          LET pcb == hist'.rxBlock.pcb
              matching == /\ T1PRIME_PCB_IS_S(pcb) /\ ~T1PRIME_PCB_S_IS_REQUEST(pcb)
                          /\ T1PRIME_PCB_S_GET_TYPE(pcb) =
                                 T1PRIME_PCB_S_GET_TYPE(bt.block.pcb)
              sameNr == T1PRIME_PCB_R_GET_NR(pcb) = protocol_state.send_counter
              invalid == /\ pc' = "done"
                         /\ status' = IFX_ERROR(LIBT1PRIME, PROTOCOL_TRANSCEIVE,
                                                 INVALID_BLOCK)
          IN  /\ ((T1PRIME_PCB_IS_S(pcb) /\ ~matching)
                     \/ (T1PRIME_PCB_IS_R(pcb) /\ sameNr)) =>
                    IF bt.try < T1PRIME_BLOCK_TRANSCEIVE_RETRIES
                    THEN /\ pc' = "transmit"
                         /\ bt'.to_send = bt.block
                         /\ bt'.try = bt.try + 1
                         /\ protocol_state' = protocol_state
                    ELSE invalid
              /\ (T1PRIME_PCB_IS_I(pcb) \/ (T1PRIME_PCB_IS_R(pcb) /\ ~sameNr)) =>
                    invalid /\ protocol_state' = protocol_state]_vars

\* S(RESYNCH request) is about to be sent again after an R-block with N(R) = S
C35_Witness ==
    /\ op = "resynch" /\ pc = "transmit" /\ bt.try = 1
    /\ bt.block.pcb = T1PRIME_PCB_S_RESYNCH_REQ /\ bt.to_send = bt.block
    /\ T1PRIME_PCB_IS_R(hist.rxBlock.pcb)
    /\ T1PRIME_PCB_R_GET_NR(hist.rxBlock.pcb) = protocol_state.send_counter

\* an I-block has ended the exchange of S(SWR request) after one transmission
C35_WitnessIBlock ==
    /\ op = "swr" /\ pc = "done"
    /\ status = IFX_ERROR(LIBT1PRIME, PROTOCOL_TRANSCEIVE, INVALID_BLOCK)
    /\ hist.rxBlock.nad = NAD_SE_TO_HD /\ T1PRIME_PCB_IS_I(hist.rxBlock.pcb)
    /\ hist.txCount = 1

\* an S-block of another type has made the host send S(IFS request) again
C35_WitnessOtherSBlock ==
    /\ op = "set_ifsd" /\ pc = "transmit" /\ bt.try = 2
    /\ bt.to_send = bt.block /\ bt.block.pcb = T1PRIME_PCB_S_IFS_REQ
    /\ T1PRIME_PCB_IS_S(hist.rxBlock.pcb)

\* the step is a receive that obtained no block; with the transport of
\* SpecShortReads: a read returned fewer bytes than requested
NoBlockRead ==
    /\ pc = "receive"
    /\ IF op = "transceive" THEN hist'.rxKind = "none" ELSE hist'.rxBlock = NoBlock

\* C36: a transport read that returns fewer bytes than requested (prologue,
\* information or epilogue read) is a hard failure: the operation ends with
\* TooLittleData and the host transmits no further block (no retry) for
\* that exchange.
C36_ShortReadIsHardFailure ==
    [][NoBlockRead =>
           /\ pc' = "done"
           /\ status' = IFX_ERROR(LIBT1PRIME, PROTOCOL_RECEIVE, TOO_LITTLE_DATA)]_vars

\* C36 (amended): a short read fails the receive attempt with TooLittleData;
\* while attempts of the exchange remain the host sends
\* R(crc_error, N(R) = R), or the request S-block of the exchange again, and
\* reads again, and the operation ends with
\* TooLittleData only when the last attempt is a short read (with
\* TransceiveAborted when the exchange is that of S(ABORT response) in the
\* receive phase); S, R, IFSC and BWT are not changed.
C36_ShortReadIsRetried ==
    [][NoBlockRead =>
           /\ protocol_state' = protocol_state
           /\ IF bt.try < T1PRIME_BLOCK_TRANSCEIVE_RETRIES
              THEN /\ pc' = "transmit"
                   /\ bt'.try = bt.try + 1
                   /\ bt'.to_send =
                          IF IsSRequest(bt.block.pcb)
                          THEN bt.block
                          ELSE Block(NAD_HD_TO_SE,
                                     T1PRIME_PCB_R_CRC(protocol_state.receive_counter),
                                     <<>>)
              ELSE /\ pc' = "done"
                   /\ status' = IF ret = "recv_abort"
                                 THEN IFX_ERROR(LIBT1PRIME, PROTOCOL_TRANSCEIVE,
                                                TRANSCEIVE_ABORTED)
                                 ELSE IFX_ERROR(LIBT1PRIME, PROTOCOL_RECEIVE,
                                                TOO_LITTLE_DATA)]_vars

\* after one short read R(crc_error) is about to be sent
C36_Witness ==
    /\ op = "transceive" /\ pc = "transmit" /\ bt.try = 1
    /\ hist.rxKind = "none" /\ hist.txCount = 1
    /\ bt.to_send.pcb = T1PRIME_PCB_R_CRC(protocol_state.receive_counter)
    /\ T1PRIME_PCB_IS_I(bt.block.pcb)

\* three short reads have ended the call with TooLittleData
C36_WitnessExhausted ==
    /\ Returned /\ hist.exhausted /\ hist.lastRx = "short"
    /\ status = IFX_ERROR(LIBT1PRIME, PROTOCOL_RECEIVE, TOO_LITTLE_DATA)

\* a call in which a read came short has returned success
C36_WitnessRecovered ==
    /\ Returned /\ status = SUCCESS /\ ~hist.onlyBadCrc

\* C37: if activate returns an error (CIP exchange failed, CIP invalid,
\* physical-layer id mismatch, or RESYNCH failed), the engine is left as
\* uninitialized: BWT and IFSC hold the defaults 300 ms and 8, not values
\* taken from the card's CIP.
C37_FailedActivateLeavesDefaults ==
    (op = "activate" /\ pc = "done" /\ status # SUCCESS) =>
        /\ protocol_state.bwt = T1PRIME_DEFAULT_BWT
        /\ protocol_state.ifsc = T1PRIME_DEFAULT_IFSC

\* activate has failed on the physical-layer id of the CIP and the session
\* holds the BWT and IFSC of that CIP
C37_FailedActivateWithCardParameters ==
    /\ op = "activate" /\ pc = "done"
    /\ status = IFX_ERROR(LIBT1PRIME, T1PRIME_CIP_VALIDATE, INVALID_PLID)
    /\ protocol_state.bwt = 128 /\ protocol_state.ifsc = 2

\* the part that holds: when the exchange of S(CIP request) fails or the CIP
\* or its DLLP cannot be decoded, the defaults are in place
C37_FailedCipLeavesDefaults ==
    (op = "activate" /\ pc = "done" /\ status # SUCCESS /\ ~hist.cipParsed) =>
        /\ protocol_state.bwt = T1PRIME_DEFAULT_BWT
        /\ protocol_state.ifsc = T1PRIME_DEFAULT_IFSC

\* C38: the send phase of every transceive call ends (by moving on to the
\* receive phase or by returning) after a bounded number of block exchanges,
\* whatever sequence of CRC-valid blocks the card sends: no card behaviour,
\* such as repeated S(WTX request), repeated S(IFS request) or repeated
\* R-blocks with N(R) = S, keeps the host exchanging blocks forever.
C38_SendPhaseEnds == SendPhase ~> ~SendPhase

\* C39: an S(IFS request) of the send phase whose value is 0 or greater than
\* 0xFF9 is not adopted and not answered: the call ends with an error
C39_OutOfRangeIfsRequestEndsCall ==
    [][(SendPhase /\ pc = "receive" /\ hist'.rxKind = "S_ifs")
          => /\ pc' = "done"
             /\ status' # SUCCESS]_vars

\* the part of C39 that holds: the only out-of-range request that is answered
\* is the one with value 0, every value above 0xFF9 ends the call with the
\* decoder's IllegalArgument
C39_IfsRequestAboveMaximumEndsCall ==
    [][(SendPhase /\ pc = "receive" /\ hist'.rxKind = "S_ifs")
          => \/ /\ pc' = "done"
                /\ status' = IFX_ERROR(LIBT1PRIME, T1PRIME_IFS_DECODE, ILLEGAL_ARGUMENT)
             \/ /\ pc' = "transmit"
                /\ bt'.to_send.pcb = T1PRIME_PCB_S_IFS_RESP
                /\ bt'.to_send.information \in { <<0>>, <<0, 0>> }
                /\ frame'.last_information_size = 0]_vars

\* after an S(IFS request) with value 0 and a retransmission request the host
\* has sent a chained I-block with an empty information field
C39_EmptyChainedIBlockSent ==
    /\ SendPhase /\ pc = "receive"
    /\ frame.last_information_size = 0
    /\ T1PRIME_PCB_IS_I(hist.lastTx.pcb)
    /\ T1PRIME_PCB_I_HAS_MORE(hist.lastTx.pcb)
    /\ hist.lastTx.information = <<>>

\* C40: in the receive phase a CRC-valid S(WTX request) or S(IFS request) is
\* not answered: the call ends with InvalidBlock, the bytes accumulated so far
\* are discarded, no further block is transmitted and S and R keep their values
C40_SRequestInReceivePhase ==
    [][(op = "transceive" /\ ret = "recv" /\ pc = "receive"
          /\ hist'.rxKind \in {"S_wtx", "S_ifs"})
          => /\ pc' = "done"
             /\ status' = IFX_ERROR(LIBT1PRIME, PROTOCOL_TRANSCEIVE, INVALID_BLOCK)
             /\ response' = NullResponse
             /\ hist'.txCount = hist.txCount
             /\ transmission_block' = NoBlock
             /\ protocol_state' = protocol_state]_vars

\* a call that received part of a chained response and then an S(WTX request)
\* or S(IFS request) has returned
C40_Witness ==
    /\ Returned
    /\ hist.rxKind \in {"S_wtx", "S_ifs"}
    /\ hist.cardBytes # <<>>
    /\ status = IFX_ERROR(LIBT1PRIME, PROTOCOL_TRANSCEIVE, INVALID_BLOCK)
    /\ response = NullResponse

====
